---- MODULE Spec2Model ----
(***************************************************************************)
(* Verification model of the bme68x driver (package bme68x):               *)
(*   - Device operations (Configure, Mode, SetMode, the setters, Read),    *)
(*     one step per bus transaction, over the addressed (I2C) transport    *)
(*     and a register-level sensor;                                        *)
(*   - the measurement-period computation of Read as a pure function;      *)
(*   - the paged (SPI) transport over a sensor that tracks its page bit.   *)
(* Bytes are naturals 0..255; bit operations are computed bit by bit.      *)
(***************************************************************************)
EXTENDS Integers, Sequences, FiniteSets, TLC

(* ------------------------------------------------------------------ *)
(* Register map and masks                                             *)
(* ------------------------------------------------------------------ *)
REG_CTRL_MEAS == 116
REG_CTRL_HUM == 114
REG_CONFIG == 117
REG_CTRL_73 == 115
MODE_MSK == 3
\* paged transport (spi.go)
REG_MEM_PAGE == 243
MEM_PAGE_MSK == 16
SPI_RD_MSK == 128
SPI_WR_MSK == 127
MEM_PAGE0 == 16
MEM_PAGE1 == 0
PageBoundary == 127

REG_SOFT_RESET == 224
CMD_RESET == 182
LEN_INTERLEAVE_BUFF == 20
REG_COEFF1 == 138
REG_COEFF2 == 225
REG_COEFF3 == 0
REG_IDAC_HEAT0 == 80
REG_GAS_WAIT0 == 100
REG_RES_HEAT0 == 90
REG_CTRL_GAS_0 == 112
REG_CTRL_GAS_1 == 113
REG_VARIANT_ID == 240
MEAS_STATUS_0 == 29
NEW_DATA_MSK == 128
GAS_INDEX_MSK == 15
GAS_RANGE_MSK == 15
GASM_VALID_MSK == 32
HEAT_STAB_MSK == 16
VARIANT_GAS_HIGH == 1
OSH_MSK == 7
OSP_MSK == 28
OST_MSK == 224
FILTER_MSK == 28
ODR20_MSK == 224
ODR3_MSK == 128
ENABLE_HEATER == 0
DISABLE_HEATER == 1
ENABLE_GAS_MEAS_H == 2
ENABLE_GAS_MEAS_L == 1
DISABLE_GAS_MEAS == 0
HCTRL_MSK == 8
NBCONV_MSK == 15
RUN_GAS_MSK == 48
HCTRL_POS == 3
RUN_GAS_POS == 4
OSP_POS == 2
OST_POS == 5
FILTER_POS == 2
ODR20_POS == 5
ODR3_POS == 7
CHIP_ID == 97
REG_CHIP_ID == 208

ModeSleep == 0
ModeForced == 1

Coeff4 == 2
Coeff128 == 7
SamplingOff == 0
Sampling1X == 1
Sampling2X == 2
Sampling4X == 3
Sampling8X == 4
Sampling16X == 5
ODR_62_5 == 1
ODR_NONE == 8

TargetTemperature == 320
Address == 119
PeriodPoll == 10000
TargetHeatrDuration == 150
MeasOffset == 1963
MeasDur == 1908
GasDur == 2385
WakeUpDur == 1000
MaxDuration == 255
GasWaitCap == 4032
GasWaitMantissaMax == 63
HeatrTempCap == 400
PollAttempts == 5
WindowLen == 17

(* ------------------------------------------------------------------ *)
(* Bounds of the model                                                *)
(* ------------------------------------------------------------------ *)
\* how many consecutive mode writes the sensor may leave unapplied
MaxLag == 2
\* how many public calls a behaviour makes on the Device after construction
MaxCalls == 2
\* how many bus transactions of a behaviour may fail
MaxFaults == 1
\* options given to NewI2C / NewSPI
MaxOptions == 2
\* Read calls of a behaviour that follows one data fetch
FetchCalls == 1

(* ------------------------------------------------------------------ *)
(* Byte arithmetic                                                    *)
(* ------------------------------------------------------------------ *)
Pow2(k) == 2 ^ k

Bit(v, k) == (v \div Pow2(k)) % 2

RECURSIVE AndFrom(_, _, _)
AndFrom(a, b, k) ==
  IF k > 7 THEN 0
  ELSE Bit(a, k) * Bit(b, k) * Pow2(k) + AndFrom(a, b, k + 1)

\* a & b on uint8
And(a, b) == AndFrom(a, b, 0)

\* a &^ b (equally a & ^b) on uint8
AndNot(a, b) == a - And(a, b)

\* a | b on uint8
Or(a, b) == a + b - And(a, b)

\* (a << k) on uint8
Shl(a, k) == (a * Pow2(k)) % 256

\* (v & ^msk) | ((field << pos) & msk)
SetField(v, msk, pos, field) == Or(AndNot(v, msk), And(Shl(field, pos), msk))

Byte == 0 .. 255

Min(a, b) == IF a < b THEN a ELSE b

(* ------------------------------------------------------------------ *)
(* State                                                              *)
(* ------------------------------------------------------------------ *)
VARIABLES
  pc,        \* position of the driver: "idle" or the next bus-transaction site
  stack,     \* return positions of the calls in progress
  op,        \* the public operation in progress (or the last one finished)
  result,    \* "none" while running, then "ok" or "err"
  loc,       \* local variables of the functions in progress
  cfg,       \* Device.config
  ident,     \* Device.chipID, Device.VariantID
  timing,    \* Device.measStart, Device.measPeriod
  meas,      \* the Measurement fields of Device
  dev,       \* the sensor behind the addressed transport
  lastTx,    \* the bus transaction issued by the last step
  hist,      \* what the driver has read from / written to the mode register
  spi,       \* the paged transport: spi.memoryPage and its call in progress
  spiDev,    \* the sensor behind the paged transport
  spiTx,     \* the SPI transaction issued by the last step
  calib,     \* Device.calibrationCoefficients
  env,       \* what the surroundings may still do: calls to make, bus faults
  dur,       \* input and output of the measurement-period computation
  bus        \* Device.bus: which transport, and the addressed transport's call

vars == <<pc, stack, op, result, loc, cfg, ident, timing, meas, dev, lastTx,
          hist, spi, spiDev, spiTx, calib, env, dur, bus>>

driverVars == <<pc, stack, op, result, loc, cfg, ident, timing, meas, dev,
                lastTx, hist, calib, env>>
spiVars == <<spi, spiDev, spiTx>>

(* ------------------------------------------------------------------ *)
(* Addressed transport (i2c) and the sensor behind it                 *)
(* ------------------------------------------------------------------ *)
\* registers the sensor model keeps: ctrl_gas_0, the 0x71..0x75 window,
\* res_heat_0 and gas_wait_0
DevRegs == {REG_CTRL_GAS_0, REG_CTRL_GAS_1, REG_CTRL_HUM, REG_CTRL_73,
            REG_CTRL_MEAS, REG_CONFIG, REG_RES_HEAT0, REG_GAS_WAIT0}

\* mutant: the buffer holds the registers first and the values after them
I2cWriteBufBlocked(reg, data) ==
  [k \in 1 .. LEN_INTERLEAVE_BUFF |->
     IF k <= Len(data) THEN reg[k]
     ELSE IF k <= 2 * Len(data) THEN data[k - Len(data)]
     ELSE 0]

\* the transaction buffer i2c.Write builds: pair i at bytes 2i, 2i+1 of a
\* LEN_INTERLEAVE_BUFF-byte buffer (1-based here), the rest zero
I2cWriteBuf(reg, data) ==
  [k \in 1 .. LEN_INTERLEAVE_BUFF |->
     LET i == (k - 1) \div 2 IN
       IF i < Len(data)
         THEN IF (k - 1) % 2 = 0 THEN reg[i + 1] ELSE data[i + 1]
         ELSE 0]

\* mutant: i2c.Write without the upper limit on the number of data bytes
I2cWriteIssuesAnyLength(data) == Len(data) > 0

\* i2c.Write issues a transaction only for 1..LEN_INTERLEAVE_BUFF/2 data bytes
I2cWriteIssues(data) ==
  Len(data) > 0 /\ Len(data) <= LEN_INTERLEAVE_BUFF \div 2

\* the sensor takes one (register, value) pair; a mode write it does not
\* honor yet leaves the power-mode field as it was
DevWritePair(d, r, v, honor) ==
  IF r = REG_SOFT_RESET /\ v = CMD_RESET
    THEN [regs |-> [x \in DevRegs |-> 0], lag |-> 0]
  ELSE IF r \notin DevRegs THEN d
  ELSE IF r = REG_CTRL_MEAS /\ ~honor
          /\ And(v, MODE_MSK) # And(d.regs[r], MODE_MSK)
    THEN [regs |-> [d.regs EXCEPT ![r] =
                      AndNot(v, MODE_MSK) + And(d.regs[r], MODE_MSK)],
          lag |-> d.lag + 1]
  ELSE [regs |-> [d.regs EXCEPT ![r] = v],
        lag |-> IF r = REG_CTRL_MEAS THEN 0 ELSE d.lag]

RECURSIVE DevWriteFrom(_, _, _, _)
DevWriteFrom(d, buf, k, honor) ==
  IF k + 1 > Len(buf) THEN d
  ELSE DevWriteFrom(DevWritePair(d, buf[k], buf[k + 1], honor), buf, k + 2, honor)

\* the sensor takes the pairs of a write transaction in order
DevWrite(d, buf, honor) == DevWriteFrom(d, buf, 1, honor)

\* the sensor may leave a mode write unapplied at most MaxLag times in a row
HonorChoices(d) == IF d.lag < MaxLag THEN BOOLEAN ELSE {TRUE}

\* burst read of n bytes from register r of the modelled register file
DevRead(d, r, n) == [k \in 1 .. n |-> d.regs[r + k - 1]]

DevMode(d) == And(d.regs[REG_CTRL_MEAS], MODE_MSK)

(* ------------------------------------------------------------------ *)
(* Calibration decode                                                 *)
(* ------------------------------------------------------------------ *)
Int8(b) == IF b > 127 THEN b - 256 ELSE b

\* parseByte[uint16](msb, lsb)
ParseU16(msb, lsb) == msb * 256 + lsb

\* parseByte[int16](msb, lsb)
ParseI16(msb, lsb) ==
  IF msb * 256 + lsb > 32767 THEN msb * 256 + lsb - 65536 ELSE msb * 256 + lsb

\* the coefficients of a Device before readCalibrationData (all zero)
ZeroCalib ==
  [t1 |-> 0, t2 |-> 0, t3 |-> 0,
   p1 |-> 0, p2 |-> 0, p3 |-> 0, p4 |-> 0, p5 |-> 0, p6 |-> 0, p7 |-> 0,
   p8 |-> 0, p9 |-> 0, p10 |-> 0,
   h1 |-> 0, h2 |-> 0, h3 |-> 0, h4 |-> 0, h5 |-> 0, h6 |-> 0, h7 |-> 0,
   g1 |-> 0, g2 |-> 0, g3 |-> 0,
   resHeatRange |-> 0, resHeatVal |-> 0, rangeSwErr |-> 0, decoded |-> FALSE]

\* mutant: h1 and h2 take the same nibble of data[24]
DecodeCalibSharedNibble(d) ==
  [t1 |-> ParseU16(d[33], d[32]),
   t2 |-> ParseI16(d[2], d[1]),
   t3 |-> Int8(d[3]),
   p1 |-> ParseU16(d[6], d[5]),
   p2 |-> ParseI16(d[8], d[7]),
   p3 |-> Int8(d[9]),
   p4 |-> ParseI16(d[12], d[11]),
   p5 |-> ParseI16(d[14], d[13]),
   p6 |-> Int8(d[16]),
   p7 |-> Int8(d[15]),
   p8 |-> ParseI16(d[20], d[19]),
   p9 |-> ParseI16(d[22], d[21]),
   p10 |-> Int8(d[23]),
   h1 |-> Or((d[26] * 16) % 65536, And(d[25], 15)),
   h2 |-> Or((d[24] * 16) % 65536, And(d[25], 15)),
   h3 |-> Int8(d[27]),
   h4 |-> Int8(d[28]),
   h5 |-> Int8(d[29]),
   h6 |-> d[30],
   h7 |-> Int8(d[31]),
   g1 |-> Int8(d[36]),
   g2 |-> ParseI16(d[35], d[34]),
   g3 |-> Int8(d[37]),
   resHeatRange |-> And(d[40], 48) \div 16,
   resHeatVal |-> Int8(d[38]),
   rangeSwErr |-> Int8(And(d[42], 240)) \div 16,
   decoded |-> TRUE]

\* readCalibrationData's decode of its 42-byte buffer; d[k + 1] is data[k]
DecodeCalib(d) ==
  [t1 |-> ParseU16(d[33], d[32]),
   t2 |-> ParseI16(d[2], d[1]),
   t3 |-> Int8(d[3]),
   p1 |-> ParseU16(d[6], d[5]),
   p2 |-> ParseI16(d[8], d[7]),
   p3 |-> Int8(d[9]),
   p4 |-> ParseI16(d[12], d[11]),
   p5 |-> ParseI16(d[14], d[13]),
   p6 |-> Int8(d[16]),
   p7 |-> Int8(d[15]),
   p8 |-> ParseI16(d[20], d[19]),
   p9 |-> ParseI16(d[22], d[21]),
   p10 |-> Int8(d[23]),
   h1 |-> Or((d[26] * 16) % 65536, And(d[25], 15)),
   h2 |-> Or((d[24] * 16) % 65536, d[25] \div 16),
   h3 |-> Int8(d[27]),
   h4 |-> Int8(d[28]),
   h5 |-> Int8(d[29]),
   h6 |-> d[30],
   h7 |-> Int8(d[31]),
   g1 |-> Int8(d[36]),
   g2 |-> ParseI16(d[35], d[34]),
   g3 |-> Int8(d[37]),
   resHeatRange |-> And(d[40], 48) \div 16,
   resHeatVal |-> Int8(d[38]),
   rangeSwErr |-> Int8(And(d[42], 240)) \div 16,
   decoded |-> TRUE]

(* ------------------------------------------------------------------ *)
(* Pure computations of the driver                                    *)
(* ------------------------------------------------------------------ *)
\* osToMeasCycles[os]
osToMeasCycles(os) == <<0, 1, 2, 4, 8, 16>>[os + 1]

\* calcMeasDuration: measCycles is a uint8, the duration a uint32 in
\* microseconds (at most 48*1963 + 5293, so the uint32 never wraps)
calcMeasDuration(c) ==
  LET measCycles == (osToMeasCycles(c.Temperature) + osToMeasCycles(c.Pressure)
                     + osToMeasCycles(c.Humidity)) % 256
  IN measCycles * MeasOffset + MeasDur + GasDur + WakeUpDur

\* Read: delayusPeriod := calcMeasDuration() + uint32(HeatrDur)*1000, a uint32
\* (at most 99517 + 65535000, so it never wraps)
DelayusPeriod(c) == calcMeasDuration(c) + c.HeatrDur * 1000

\* Read: d.measPeriod = uint16(delayusPeriod) / 1000
MeasPeriodOf(c) == (DelayusPeriod(c) % 65536) \div 1000

\* a loop that divides once at most (the exponent never passes 1)
GasWaitLoopOneStep(d, factor) ==
  IF d > 63 THEN (((d \div 4) % 64) + 64) % 256 ELSE d % 256

\* calcGasWait: the loop divides by 4 while dur > 0x3F
RECURSIVE GasWaitLoop(_, _)
GasWaitLoop(d, factor) ==
  IF d > GasWaitMantissaMax THEN GasWaitLoop(d \div 4, (factor + 1) % 256)
  ELSE ((d % 256) + ((factor * 64) % 256)) % 256

\* calcGasWait without the early return of MaxDuration
calcGasWaitNoCap(c) == GasWaitLoop(c.HeatrDur, 0)

calcGasWait(c) ==
  IF c.HeatrDur >= GasWaitCap THEN MaxDuration ELSE GasWaitLoop(c.HeatrDur, 0)

\* calcResistanceHeat, evaluated in fixed point (thousandths) in place of
\* float32: var1 = g1/16 + 49, var2 = g2/32768*0.0005 + 0.00235,
\* var3 = g3/1024, var4 = var1*(1 + var2*target), var5 = var4 + var3*ambient,
\* result = uint8(3.4*(var5*(4/(4+range))*(1/(1+val*0.002)) - 25))
calcResistanceHeat(k, c, target0) ==
  LET target == IF target0 > HeatrTempCap THEN HeatrTempCap ELSE target0
      var1x16 == k.g1 + 784
      var2micro == ((k.g2 * 5 + 770048) * 100) \div 32768
      var4milli == (var1x16 * (1000000 + var2micro * target)) \div 16000
      var5milli == var4milli + (k.g3 * c.AmbientTemperature * 1000) \div 1024
      scaled == (((var5milli * 4) \div (4 + k.resHeatRange)) * 1000)
                  \div (1000 + 2 * k.resHeatVal)
  IN ((34 * (scaled - 25000)) \div 10000) % 256

\* applyConfig leaving the no-standby flag clear at every level
ApplyConfigWindowStandby(data, c) ==
  LET d4a == SetField(data[5], FILTER_MSK, FILTER_POS, c.IIR)
      d3a == SetField(data[4], OST_MSK, OST_POS, c.Temperature)
      d3b == SetField(d3a, OSP_MSK, OSP_POS, c.Pressure)
      d1 == Or(AndNot(data[2], OSH_MSK), And(c.Humidity, OSH_MSK))
      odr20 == IF c.ODR # ODR_NONE THEN c.ODR ELSE 0
      d4b == SetField(d4a, ODR20_MSK, ODR20_POS, odr20)
      d0 == SetField(data[1], ODR3_MSK, ODR3_POS, 0)
  IN <<d0, d1, data[3], d3b, d4b>>

\* applyConfig storing the humidity field without keeping the rest of its
\* byte
ApplyConfigWindowUnmasked(data, c) ==
  LET d4a == SetField(data[5], FILTER_MSK, FILTER_POS, c.IIR)
      d3a == SetField(data[4], OST_MSK, OST_POS, c.Temperature)
      d3b == SetField(d3a, OSP_MSK, OSP_POS, c.Pressure)
      d1 == And(c.Humidity, OSH_MSK)
      odr20 == IF c.ODR # ODR_NONE THEN c.ODR ELSE 0
      odr3 == IF c.ODR # ODR_NONE THEN 0 ELSE 1
      d4b == SetField(d4a, ODR20_MSK, ODR20_POS, odr20)
      d0 == SetField(data[1], ODR3_MSK, ODR3_POS, odr3)
  IN <<d0, d1, data[3], d3b, d4b>>

\* applyConfig: the new contents of the 5-byte window read at REG_CTRL_GAS_1;
\* data[k + 1] is data[k]
ApplyConfigWindow(data, c) ==
  LET d4a == SetField(data[5], FILTER_MSK, FILTER_POS, c.IIR)
      d3a == SetField(data[4], OST_MSK, OST_POS, c.Temperature)
      d3b == SetField(d3a, OSP_MSK, OSP_POS, c.Pressure)
      d1 == Or(AndNot(data[2], OSH_MSK), And(c.Humidity, OSH_MSK))
      odr20 == IF c.ODR # ODR_NONE THEN c.ODR ELSE 0
      odr3 == IF c.ODR # ODR_NONE THEN 0 ELSE 1
      d4b == SetField(d4a, ODR20_MSK, ODR20_POS, odr20)
      d0 == SetField(data[1], ODR3_MSK, ODR3_POS, odr3)
  IN <<d0, d1, data[3], d3b, d4b>>

\* mutant: the profile index moves on by one at every run
ApplyGasCtrlNextProfile(ctrl, c, variantID) ==
  LET hctrl == IF c.HeatrEnable THEN ENABLE_HEATER ELSE DISABLE_HEATER
      runGas == IF c.HeatrEnable
                  THEN IF variantID = VARIANT_GAS_HIGH THEN ENABLE_GAS_MEAS_H
                       ELSE ENABLE_GAS_MEAS_L
                  ELSE DISABLE_GAS_MEAS
      c0 == SetField(ctrl[1], HCTRL_MSK, HCTRL_POS, hctrl)
      c1a == Or(AndNot(ctrl[2], NBCONV_MSK), And(ctrl[2] + 1, NBCONV_MSK))
      c1b == SetField(c1a, RUN_GAS_MSK, RUN_GAS_POS, runGas)
  IN <<c0, c1b>>

\* mutant: the run-gas value of the low-range sensor on every variant
ApplyGasCtrlOneVariant(ctrl, c, variantID) ==
  LET hctrl == IF c.HeatrEnable THEN ENABLE_HEATER ELSE DISABLE_HEATER
      runGas == IF c.HeatrEnable THEN ENABLE_GAS_MEAS_L ELSE DISABLE_GAS_MEAS
      c0 == SetField(ctrl[1], HCTRL_MSK, HCTRL_POS, hctrl)
      c1a == Or(AndNot(ctrl[2], NBCONV_MSK), And(0, NBCONV_MSK))
      c1b == SetField(c1a, RUN_GAS_MSK, RUN_GAS_POS, runGas)
  IN <<c0, c1b>>

\* applyGasConfig: the new contents of the ctrl_gas_0 / ctrl_gas_1 pair
ApplyGasCtrl(ctrl, c, variantID) ==
  LET hctrl == IF c.HeatrEnable THEN ENABLE_HEATER ELSE DISABLE_HEATER
      runGas == IF c.HeatrEnable
                  THEN IF variantID = VARIANT_GAS_HIGH THEN ENABLE_GAS_MEAS_H
                       ELSE ENABLE_GAS_MEAS_L
                  ELSE DISABLE_GAS_MEAS
      c0 == SetField(ctrl[1], HCTRL_MSK, HCTRL_POS, hctrl)
      c1a == Or(AndNot(ctrl[2], NBCONV_MSK), And(0, NBCONV_MSK))
      c1b == SetField(c1a, RUN_GAS_MSK, RUN_GAS_POS, runGas)
  IN <<c0, c1b>>

\* applyGasConfig: HeatrEnable is cleared when temperature or duration is 0
GasEnableFix(c) ==
  IF c.HeatrTemp = 0 \/ c.HeatrDur = 0 THEN [c EXCEPT !.HeatrEnable = FALSE]
  ELSE c

\* new(): the Config a Device is constructed with
DefaultConfig ==
  [Pressure |-> Sampling4X, Temperature |-> Sampling8X, Humidity |-> Sampling2X,
   IIR |-> Coeff4, ODR |-> ODR_NONE,
   HeatrTemp |-> TargetTemperature, HeatrDur |-> TargetHeatrDuration,
   HeatrEnable |-> TRUE, AmbientTemperature |-> 25, mode |-> ModeForced]

(* ------------------------------------------------------------------ *)
(* Driver steps: bookkeeping shared by the operations                 *)
(* ------------------------------------------------------------------ *)
\* zero value of a compensated quantity
ZeroVal == [fn |-> "zero", args |-> <<>>]

\* the Measurement fields of a new Device
ZeroMeas ==
  [Status |-> 0, GasIndex |-> 0, MeasIndex |-> 0, ResHeat |-> 0, Idac |-> 0,
   GasWait |-> 0, TemperatureFine |-> ZeroVal, Temperature |-> ZeroVal,
   Pressure |-> ZeroVal, Humidity |-> ZeroVal, GasResistance |-> ZeroVal]

\* readData's locals decoded from a status window, before any window is read
ZeroFields ==
  [Status |-> 0, GasIndex |-> 0, MeasIndex |-> 0, adcPres |-> 0, adcTemp |-> 0,
   adcHum |-> 0, adcGasResLow |-> 0, adcGasResHigh |-> 0, gasRangeLow |-> 0,
   gasRangeHigh |-> 0]

ZeroLoc ==
  [mode |-> 0, tmpPowerMode |-> 0, powerMode |-> 0, nReads |-> 0, nClears |-> 0,
   currentMode |-> 0, data |-> <<0, 0, 0, 0, 0>>, ctrlGas |-> <<0, 0>>,
   cal |-> [k \in 1 .. 42 |-> 0], i |-> 0, fields |-> ZeroFields,
   connected |-> FALSE, err |-> "nil"]

NoTx ==
  [site |-> "none", kind |-> "none", regs |-> <<>>, w |-> <<>>, rlen |-> 0,
   ok |-> TRUE, preRead |-> -1, preDirty |-> FALSE, preSaw |-> FALSE,
   v |-> -1, log |-> <<>>]

\* what a run of applyConfig or applyGasConfig started from: the sensor's
\* registers, the Config before and after the caller's assignment, and the
\* call that came before
NoPrev ==
  [regs |-> <<>>, lag |-> 0, cfg |-> <<>>, cfgIn |-> <<>>, op |-> "none",
   result |-> "none"]

ZeroHist ==
  [lastModeRead |-> -1, lastRaw |-> 0, dirty |-> FALSE, sawSleep |-> FALSE,
   startMode |-> 0, lastModeWritten |-> -1, measBefore |-> ZeroMeas,
   windowReads |-> 0, newData |-> FALSE, lastWin |-> <<>>, prev |-> NoPrev,
   guarded |-> "none"]

\* a read transaction of the addressed transport: register pointer, then burst
TxRead(site, reg, n, ok) ==
  [site |-> site, kind |-> "read", regs |-> <<reg>>, w |-> <<reg>>, rlen |-> n,
   ok |-> ok, preRead |-> hist.lastModeRead, preDirty |-> hist.dirty,
   preSaw |-> hist.sawSleep, v |-> -1, log |-> <<>>]

\* a write transaction of the addressed transport
TxWrite(site, regs, data, ok) ==
  [site |-> site, kind |-> "write", regs |-> regs, w |-> I2cWriteBuf(regs, data),
   rlen |-> 0, ok |-> ok, preRead |-> hist.lastModeRead, preDirty |-> hist.dirty,
   preSaw |-> hist.sawSleep, v |-> -1, log |-> <<>>]

\* the mode register was read (ok) or the read failed
HistRead(h, ok, v) ==
  [h EXCEPT !.lastModeRead = IF ok THEN And(v, MODE_MSK) ELSE -1,
            !.lastRaw = IF ok THEN v ELSE 0,
            !.dirty = FALSE,
            !.sawSleep = h.sawSleep \/ (ok /\ And(v, MODE_MSK) = ModeSleep)]

\* a write that carries value v for the mode register was issued
HistModeWrite(h, v) ==
  [h EXCEPT !.lastModeWritten = And(v, MODE_MSK),
            !.dirty = h.dirty \/ And(v, MODE_MSK) # ModeSleep]

\* a public call starts on the idle driver
HistCall(h) ==
  [h EXCEPT !.startMode = DevMode(dev), !.lastModeWritten = -1,
            !.sawSleep = FALSE]

\* SetMode's entry: d.config.mode = mode, fresh locals
SmLoc(l, mode) ==
  [l EXCEPT !.mode = mode, !.tmpPowerMode = 0, !.powerMode = 0,
            !.nReads = 0, !.nClears = 0]

HistSm(h) == [h EXCEPT !.sawSleep = FALSE]

\* the function in progress returns nil
Finish(l) ==
  IF stack = <<>>
    THEN /\ pc' = "idle" /\ stack' = <<>> /\ result' = "ok" /\ loc' = ZeroLoc
    ELSE /\ pc' = Head(stack) /\ stack' = Tail(stack) /\ result' = result
         /\ loc' = l

\* the pending returns st hold p: the function returning to p has been
\* called and has not returned
Pending(st, p) == \E k \in 1 .. Len(st) : st[k] = p

\* mutant: Configure reports a failed read of the variant id as a failed
\* read of the chip id
ConfigureErrorShifted(p, st) ==
  CASE p = "cn_read" -> "device not found or not connected"
    [] p = "rs_write" -> "failed to reset device"
    [] p \in {"cf_chipid", "cf_variant"} -> "failed to read chip ID"
    [] p \in {"cf_cal1", "cf_cal2", "cf_cal3"} ->
         "failed to read calibration data"
    [] OTHER -> IF Pending(st, "ag_begin") THEN "failed to apply config"
                ELSE "failed to apply gas config"

\* Configure: the message it wraps an error in, by the call that returned
\* it; p is the step that failed. While applyConfig runs, the call of
\* applyGasConfig is still pending.
ConfigureError(p, st) ==
  CASE p = "cn_read" -> "device not found or not connected"
    [] p = "rs_write" -> "failed to reset device"
    [] p = "cf_chipid" -> "failed to read chip ID"
    [] p = "cf_variant" -> "failed to read variant ID"
    [] p \in {"cf_cal1", "cf_cal2", "cf_cal3"} ->
         "failed to read calibration data"
    [] OTHER -> IF Pending(st, "ag_begin") THEN "failed to apply config"
                ELSE "failed to apply gas config"

\* the error a public operation returns when step p fails: Configure, the
\* setters and Read wrap it in a message; Connected, Reset, Mode and SetMode
\* return the transport's error as it is
ErrorOf(o, p, st) ==
  CASE o = "Configure" -> ConfigureError(p, st)
    [] o \in {"SetTemperatureOversampling", "SetPressureOversampling",
              "SetHumidityOversampling", "SetIIRFilter", "SetODR"} ->
         "failed to apply config"
    [] o = "SetGasHeater" -> "failed to apply gas config"
    [] o = "Read" -> IF Pending(st, "rd_wait") THEN "failed to set forced mode"
                     ELSE "failed to read data"
    [] OTHER -> "bus"

\* mutant: on an error the step is taken again
AbortRetries == UNCHANGED <<pc, stack, result, loc>>

\* an error is returned: every caller up to the public operation returns it
Abort ==
  /\ pc' = "idle" /\ stack' = <<>> /\ result' = "err"
  /\ loc' = [ZeroLoc EXCEPT !.err = ErrorOf(op, pc, stack)]

Goto(p, l) == /\ pc' = p /\ stack' = stack /\ result' = result /\ loc' = l

\* a public operation is called
Begin(name, p, rets, l) ==
  /\ pc = "idle"
  /\ env.calls > 0
  /\ env' = [env EXCEPT !.calls = env.calls - 1]
  /\ lastTx' = NoTx
  /\ op' = name /\ pc' = p /\ stack' = rets /\ result' = "none" /\ loc' = l

\* a bus transaction fails only while the fault budget lasts
OkChoices == IF env.faults > 0 THEN BOOLEAN ELSE {TRUE}

\* the transactions of the call in progress, in the order issued
TxLog(log, tx) ==
  Append(log, [site |-> tx.site, kind |-> tx.kind, ok |-> tx.ok, v |-> tx.v,
               regs |-> tx.regs])

\* the byte that was read, kept with the transaction
TxGot(tx, v) == [tx EXCEPT !.v = IF tx.ok THEN v ELSE -1]

\* the step issues transaction tx
Issue(tx) ==
  /\ lastTx' = [tx EXCEPT !.log = TxLog(lastTx.log, tx)]
  /\ env' = IF tx.ok THEN env ELSE [env EXCEPT !.faults = env.faults - 1]

(* ------------------------------------------------------------------ *)
(* Mode and SetMode                                                   *)
(* ------------------------------------------------------------------ *)
Modes == {ModeSleep, ModeForced}

\* Device.Mode, called by the user
Mode ==
  /\ Begin("Mode", "md_read", <<>>, ZeroLoc)
  /\ hist' = HistCall(hist)
  /\ UNCHANGED <<cfg, ident, timing, meas, dev, calib>>

\* Mode: the read of REG_CTRL_MEAS; d.config.mode = data[0] & MODE_MSK
ModeRead ==
  /\ pc = "md_read"
  /\ \E ok \in OkChoices :
       LET v == dev.regs[REG_CTRL_MEAS] IN
       /\ Issue(TxRead("md_read", REG_CTRL_MEAS, 1, ok))
       /\ hist' = HistRead(hist, ok, v)
       /\ IF ok
            THEN /\ cfg' = [cfg EXCEPT !.mode = And(v, MODE_MSK)]
                 /\ Finish(loc)
            ELSE /\ cfg' = cfg
                 /\ Abort
  /\ UNCHANGED <<op, ident, timing, meas, dev, calib>>

\* Device.SetMode, called by the user
SetMode(mode) ==
  /\ Begin("SetMode", "sm_read", <<>>, SmLoc(ZeroLoc, mode))
  /\ cfg' = [cfg EXCEPT !.mode = mode]
  /\ hist' = HistCall(hist)
  /\ UNCHANGED <<ident, timing, meas, dev, calib>>

\* mutant: the loop gives up without having seen sleep
SetModeLoopExitsUnconfirmed(l, powerMode) == TRUE

\* mutant: the loop keeps a retry counter and gives up after two reads
SetModeLoopExitsAfterRetries(l, powerMode) ==
  powerMode = ModeSleep \/ l.nReads >= 2

\* the loop exits once a read shows sleep; it keeps no retry counter
SetModeLoopExits(l, powerMode) == powerMode = ModeSleep

\* SetMode: the read of the power mode at the top of the loop
SetModeRead ==
  /\ pc = "sm_read"
  /\ \E ok \in OkChoices :
       LET v == dev.regs[REG_CTRL_MEAS]
           pm == And(v, MODE_MSK)
           l == [loc EXCEPT !.tmpPowerMode = v, !.powerMode = pm,
                            !.nReads = loc.nReads + 1]
       IN
       /\ Issue(TxRead("sm_read", REG_CTRL_MEAS, 1, ok))
       /\ hist' = HistRead(hist, ok, v)
       /\ IF ok
            THEN IF SetModeLoopExits(l, pm) THEN Goto("sm_target", l)
                 ELSE Goto("sm_clear", l)
            ELSE Abort
  /\ UNCHANGED <<op, cfg, ident, timing, meas, dev, calib>>

\* mutant: the loop writes the target mode instead of clearing the field
SetModeClearValueTarget(l) ==
  Or(AndNot(l.tmpPowerMode, MODE_MSK), And(l.mode, MODE_MSK))

\* SetMode: the value written inside the loop, tmpPowerMode[0] &= ^MODE_MSK
SetModeClearValue(l) == AndNot(l.tmpPowerMode, MODE_MSK)

\* SetMode: put the sensor to sleep, wait one poll period, read again
SetModeClear ==
  /\ pc = "sm_clear"
  /\ \E ok \in OkChoices, honor \in HonorChoices(dev) :
       LET v == SetModeClearValue(loc)
           l == [loc EXCEPT !.tmpPowerMode = v, !.nClears = loc.nClears + 1]
       IN
       /\ Issue(TxWrite("sm_clear", <<REG_CTRL_MEAS>>, <<v>>, ok))
       /\ hist' = HistModeWrite(hist, v)
       /\ IF ok
            THEN /\ dev' = DevWrite(dev, I2cWriteBuf(<<REG_CTRL_MEAS>>, <<v>>), honor)
                 /\ Goto("sm_read", l)
            ELSE /\ dev' = dev
                 /\ Abort
  /\ UNCHANGED <<op, cfg, ident, timing, meas, calib>>

\* mutant: the target mode is written without the bits read
SetModeTargetValueBare(l) == And(l.mode, MODE_MSK)

\* SetMode: the value written after the loop for a target mode other than sleep
SetModeTargetValue(l) ==
  Or(AndNot(l.tmpPowerMode, MODE_MSK), And(l.mode, MODE_MSK))

\* SetMode: after the loop, write the target mode unless it is sleep
SetModeTarget ==
  /\ pc = "sm_target"
  /\ IF loc.mode # ModeSleep
       THEN \E ok \in OkChoices, honor \in HonorChoices(dev) :
              LET v == SetModeTargetValue(loc) IN
              /\ Issue(TxWrite("sm_target", <<REG_CTRL_MEAS>>, <<v>>, ok))
              /\ hist' = HistModeWrite(hist, v)
              /\ IF ok
                   THEN /\ dev' = DevWrite(dev, I2cWriteBuf(<<REG_CTRL_MEAS>>, <<v>>),
                                           honor)
                        /\ Finish([loc EXCEPT !.tmpPowerMode = v])
                   ELSE /\ dev' = dev
                        /\ Abort
       ELSE /\ Finish(loc)
            /\ UNCHANGED <<lastTx, hist, dev, env>>
  /\ UNCHANGED <<op, cfg, ident, timing, meas, calib>>

(* ------------------------------------------------------------------ *)
(* applyConfig and the setters that run it                            *)
(* ------------------------------------------------------------------ *)
\* values the setters are called with
OsArgs == {Sampling16X}
IIRArgs == {Coeff128}
ODRArgs == {ODR_62_5}
HeaterArgs == {<<TargetTemperature, TargetHeatrDuration, TRUE>>,
               <<0, TargetHeatrDuration, TRUE>>}

\* a run of applyConfig or applyGasConfig starts with Config c; what it
\* starts from is kept where a behaviour repeats one operation
HistApply(h, c) ==
  IF bus.use = "none" THEN h
  ELSE [h EXCEPT !.prev = [regs |-> dev.regs, lag |-> dev.lag, cfg |-> cfg,
                           cfgIn |-> c, op |-> op, result |-> result]]

\* a setter stores its argument in Config and runs applyConfig
Setter(name, c) ==
  /\ Begin(name, "ac_mode", <<>>, ZeroLoc)
  /\ cfg' = c
  /\ hist' = HistApply(HistCall(hist), c)
  /\ UNCHANGED <<ident, timing, meas, dev, calib>>

SetTemperatureOversampling(os) ==
  Setter("SetTemperatureOversampling", [cfg EXCEPT !.Temperature = os])

SetPressureOversampling(os) ==
  Setter("SetPressureOversampling", [cfg EXCEPT !.Pressure = os])

SetHumidityOversampling(os) ==
  Setter("SetHumidityOversampling", [cfg EXCEPT !.Humidity = os])

SetIIRFilter(fc) == Setter("SetIIRFilter", [cfg EXCEPT !.IIR = fc])

SetODR(odr) == Setter("SetODR", [cfg EXCEPT !.ODR = odr])

\* applyConfig: currentMode, err := d.Mode(), then SetMode(ModeSleep) begins
ApplyConfigMode ==
  /\ pc = "ac_mode"
  /\ \E ok \in OkChoices :
       LET v == dev.regs[REG_CTRL_MEAS]
           l == SmLoc([loc EXCEPT !.currentMode = And(v, MODE_MSK)], ModeSleep)
       IN
       /\ Issue(TxGot(TxRead("ac_mode", REG_CTRL_MEAS, 1, ok), v))
       /\ hist' = HistSm(HistRead(hist, ok, v))
       /\ IF ok
            THEN /\ cfg' = [cfg EXCEPT !.mode = ModeSleep]
                 /\ pc' = "sm_read" /\ stack' = <<"ac_readwin">> \o stack
                 /\ result' = result /\ loc' = l
            ELSE /\ cfg' = cfg
                 /\ Abort
  /\ UNCHANGED <<op, ident, timing, meas, dev, calib>>

\* applyConfig: read the 5-byte window at REG_CTRL_GAS_1
ApplyConfigReadWindow ==
  /\ pc = "ac_readwin"
  /\ \E ok \in OkChoices :
       /\ Issue(TxRead("ac_readwin", REG_CTRL_GAS_1, 5, ok))
       /\ IF ok
            THEN Goto("ac_writewin", [loc EXCEPT !.data = DevRead(dev, REG_CTRL_GAS_1, 5)])
            ELSE Abort
  /\ UNCHANGED <<op, cfg, ident, timing, meas, dev, hist, calib>>

ConfigWindowRegs ==
  <<REG_CTRL_GAS_1, REG_CTRL_HUM, REG_CTRL_73, REG_CTRL_MEAS, REG_CONFIG>>

\* applyConfig: restore the previous mode unless it was sleep
ApplyConfigRestores(currentMode) == currentMode # ModeSleep

\* applyConfig: write the window back, then restore the previous mode
ApplyConfigWriteWindow ==
  /\ pc = "ac_writewin"
  /\ \E ok \in OkChoices, honor \in HonorChoices(dev) :
       LET data == ApplyConfigWindow(loc.data, cfg)
           l == [loc EXCEPT !.data = data]
       IN
       /\ Issue(TxWrite("ac_writewin", ConfigWindowRegs, data, ok))
       /\ IF ok
            THEN /\ dev' = DevWrite(dev, I2cWriteBuf(ConfigWindowRegs, data), honor)
                 /\ IF ApplyConfigRestores(loc.currentMode)
                      THEN /\ cfg' = [cfg EXCEPT !.mode = loc.currentMode]
                           /\ hist' = HistSm(HistModeWrite(hist, data[4]))
                           /\ Goto("sm_read", SmLoc(l, loc.currentMode))
                      ELSE /\ cfg' = cfg
                           /\ hist' = HistModeWrite(hist, data[4])
                           /\ Finish(l)
            ELSE /\ dev' = dev /\ cfg' = cfg
                 /\ hist' = HistModeWrite(hist, data[4])
                 /\ Abort
  /\ UNCHANGED <<op, ident, timing, meas, calib>>

(* ------------------------------------------------------------------ *)
(* applyGasConfig and SetGasHeater                                    *)
(* ------------------------------------------------------------------ *)
\* SetGasHeater stores its arguments; applyGasConfig fixes HeatrEnable and
\* starts SetMode(ModeSleep).  It reads no mode first and restores none after.
SetGasHeater(temp, durMs, enable) ==
  /\ Begin("SetGasHeater", "sm_read", <<"ag_rh">>, SmLoc(ZeroLoc, ModeSleep))
  /\ cfg' = [GasEnableFix([cfg EXCEPT !.HeatrTemp = temp, !.HeatrDur = durMs,
                                      !.HeatrEnable = enable])
               EXCEPT !.mode = ModeSleep]
  /\ hist' = HistApply(HistCall(hist),
                       [cfg EXCEPT !.HeatrTemp = temp, !.HeatrDur = durMs,
                                   !.HeatrEnable = enable])
  /\ UNCHANGED <<ident, timing, meas, dev, calib>>

\* applyGasConfig as run by Configure after applyConfig has returned
ApplyGasBegin ==
  /\ pc = "ag_begin"
  /\ cfg' = [GasEnableFix(cfg) EXCEPT !.mode = ModeSleep]
  /\ hist' = HistSm(hist)
  /\ pc' = "sm_read" /\ stack' = <<"ag_rh">> \o stack /\ result' = result
  /\ loc' = SmLoc(loc, ModeSleep)
  /\ UNCHANGED <<op, ident, timing, meas, dev, lastTx, calib, env>>

\* applyHeatrConfig: write the heater resistance to res_heat_0
HeatrWriteRes ==
  /\ pc = "ag_rh"
  /\ \E ok \in OkChoices :
       LET v == calcResistanceHeat(calib, cfg, cfg.HeatrTemp) IN
       /\ Issue(TxWrite("ag_rh", <<REG_RES_HEAT0>>, <<v>>, ok))
       /\ IF ok
            THEN /\ dev' = DevWrite(dev, I2cWriteBuf(<<REG_RES_HEAT0>>, <<v>>), TRUE)
                 /\ Goto("ag_gw", loc)
            ELSE /\ dev' = dev
                 /\ Abort
  /\ UNCHANGED <<op, cfg, ident, timing, meas, hist, calib>>

\* applyHeatrConfig: write the gas-wait byte to gas_wait_0
HeatrWriteGasWait ==
  /\ pc = "ag_gw"
  /\ \E ok \in OkChoices :
       LET v == calcGasWait(cfg) IN
       /\ Issue(TxWrite("ag_gw", <<REG_GAS_WAIT0>>, <<v>>, ok))
       /\ IF ok
            THEN /\ dev' = DevWrite(dev, I2cWriteBuf(<<REG_GAS_WAIT0>>, <<v>>), TRUE)
                 /\ Goto("ag_readctrl", loc)
            ELSE /\ dev' = dev
                 /\ Abort
  /\ UNCHANGED <<op, cfg, ident, timing, meas, hist, calib>>

\* applyGasConfig: read ctrl_gas_0 and ctrl_gas_1
ApplyGasReadCtrl ==
  /\ pc = "ag_readctrl"
  /\ \E ok \in OkChoices :
       /\ Issue(TxRead("ag_readctrl", REG_CTRL_GAS_0, 2, ok))
       /\ IF ok
            THEN Goto("ag_writectrl",
                      [loc EXCEPT !.ctrlGas = DevRead(dev, REG_CTRL_GAS_0, 2)])
            ELSE Abort
  /\ UNCHANGED <<op, cfg, ident, timing, meas, dev, hist, calib>>

\* applyGasConfig: write heater control, run-gas and profile index back
ApplyGasWriteCtrl ==
  /\ pc = "ag_writectrl"
  /\ \E ok \in OkChoices :
       LET data == ApplyGasCtrl(loc.ctrlGas, cfg, ident.VariantID)
           regs == <<REG_CTRL_GAS_0, REG_CTRL_GAS_1>>
       IN
       /\ Issue(TxWrite("ag_writectrl", regs, data, ok))
       /\ IF ok
            THEN /\ dev' = DevWrite(dev, I2cWriteBuf(regs, data), TRUE)
                 /\ Finish([loc EXCEPT !.ctrlGas = data])
            ELSE /\ dev' = dev
                 /\ Abort
  /\ UNCHANGED <<op, cfg, ident, timing, meas, hist, calib>>

(* ------------------------------------------------------------------ *)
(* Connected, Reset, Configure                                        *)
(* ------------------------------------------------------------------ *)
\* what the sensor model answers outside its register file
ChipIds == {CHIP_ID, 0}
VariantIds == {0, VARIANT_GAS_HIGH}
\* the calibration bytes of the sensor model, as readCalibrationData's buffer
DevCalRom == [k \in 1 .. 42 |-> (k * 37 + 11) % 256]

\* Device.Connected, called by the user
Connected ==
  /\ Begin("Connected", "cn_read", <<>>, ZeroLoc)
  /\ hist' = HistCall(hist)
  /\ UNCHANGED <<cfg, ident, timing, meas, dev, calib>>

\* Device.Reset, called by the user
Reset ==
  /\ Begin("Reset", "rs_write", <<>>, ZeroLoc)
  /\ hist' = HistCall(hist)
  /\ UNCHANGED <<cfg, ident, timing, meas, dev, calib>>

\* Device.Configure, called by the user: Connected, Reset, readChipID,
\* readVariantID, readCalibrationData, applyConfig, applyGasConfig
Configure ==
  /\ Begin("Configure", "cn_read", <<"rs_write", "cf_chipid">>, ZeroLoc)
  /\ hist' = HistCall(hist)
  /\ UNCHANGED <<cfg, ident, timing, meas, dev, calib>>

\* mutant: Connected reports any chip as the expected one
ConnectedAnyChip(id) == TRUE

\* Connected: return d.chipID == CHIP_ID
ConnectedResult(id) == id = CHIP_ID

\* Connected: readChipID; Configure gives up unless the id is CHIP_ID
ConnectedRead ==
  /\ pc = "cn_read"
  /\ \E ok \in OkChoices, id \in ChipIds :
       /\ Issue(TxGot(TxRead("cn_read", REG_CHIP_ID, 1, ok), id))
       /\ IF ok
            THEN /\ ident' = [ident EXCEPT !.chipID = id]
                 /\ IF op = "Configure" /\ ~ConnectedResult(id) THEN Abort
                    ELSE Finish([loc EXCEPT !.connected = ConnectedResult(id)])
            ELSE /\ ident' = ident
                 /\ Abort
  /\ UNCHANGED <<op, cfg, timing, meas, dev, hist, calib>>

\* i2c.Reset: write CMD_RESET to REG_SOFT_RESET, wait PeriodReset
ResetWrite ==
  /\ pc = "rs_write"
  /\ \E ok \in OkChoices :
       /\ Issue(TxWrite("rs_write", <<REG_SOFT_RESET>>, <<CMD_RESET>>, ok))
       /\ IF ok
            THEN /\ dev' = DevWrite(dev, I2cWriteBuf(<<REG_SOFT_RESET>>, <<CMD_RESET>>),
                                    TRUE)
                 /\ Finish(loc)
            ELSE /\ dev' = dev
                 /\ Abort
  /\ UNCHANGED <<op, cfg, ident, timing, meas, hist, calib>>

\* Configure: readChipID
ChipIdRead ==
  /\ pc = "cf_chipid"
  /\ \E ok \in OkChoices, id \in ChipIds :
       /\ Issue(TxGot(TxRead("cf_chipid", REG_CHIP_ID, 1, ok), id))
       /\ IF ok
            THEN /\ ident' = [ident EXCEPT !.chipID = id]
                 /\ Goto("cf_variant", loc)
            ELSE /\ ident' = ident
                 /\ Abort
  /\ UNCHANGED <<op, cfg, timing, meas, dev, hist, calib>>

\* Configure: readVariantID
VariantRead ==
  /\ pc = "cf_variant"
  /\ \E ok \in OkChoices, id \in VariantIds :
       /\ Issue(TxRead("cf_variant", REG_VARIANT_ID, 1, ok))
       /\ IF ok
            THEN /\ ident' = [ident EXCEPT !.VariantID = id]
                 /\ Goto("cf_cal1", loc)
            ELSE /\ ident' = ident
                 /\ Abort
  /\ UNCHANGED <<op, cfg, timing, meas, dev, hist, calib>>

\* the buffer after a read of n bytes into data[from .. from+n-1]
CalFill(buf, from, n) ==
  [k \in 1 .. 42 |-> IF k > from /\ k <= from + n THEN DevCalRom[k] ELSE buf[k]]

\* mutant: readCalibrationData decodes right after its first window
CalRead1Decodes ==
  /\ pc = "cf_cal1"
  /\ \E ok \in OkChoices :
       /\ Issue(TxRead("cf_cal1", REG_COEFF1, 23, ok))
       /\ IF ok
            THEN /\ calib' = DecodeCalib(CalFill(loc.cal, 0, 23))
                 /\ Goto("cf_cal2", [loc EXCEPT !.cal = CalFill(loc.cal, 0, 23)])
            ELSE /\ calib' = calib
                 /\ Abort
  /\ UNCHANGED <<op, cfg, ident, timing, meas, dev, hist>>

\* readCalibrationData: 23 bytes at REG_COEFF1 into data[:23]
CalRead1 ==
  /\ pc = "cf_cal1"
  /\ \E ok \in OkChoices :
       /\ Issue(TxRead("cf_cal1", REG_COEFF1, 23, ok))
       /\ IF ok THEN Goto("cf_cal2", [loc EXCEPT !.cal = CalFill(loc.cal, 0, 23)])
          ELSE Abort
  /\ UNCHANGED <<op, cfg, ident, timing, meas, dev, hist, calib>>

\* readCalibrationData: 14 bytes at REG_COEFF2 into data[23:37]
CalRead2 ==
  /\ pc = "cf_cal2"
  /\ \E ok \in OkChoices :
       /\ Issue(TxRead("cf_cal2", REG_COEFF2, 14, ok))
       /\ IF ok THEN Goto("cf_cal3", [loc EXCEPT !.cal = CalFill(loc.cal, 23, 14)])
          ELSE Abort
  /\ UNCHANGED <<op, cfg, ident, timing, meas, dev, hist, calib>>

\* readCalibrationData: 5 bytes at REG_COEFF3 into data[37:], then the decode;
\* Configure goes on with applyConfig and, after it, applyGasConfig
CalRead3 ==
  /\ pc = "cf_cal3"
  /\ \E ok \in OkChoices :
       /\ Issue(TxRead("cf_cal3", REG_COEFF3, 5, ok))
       /\ IF ok
            THEN /\ calib' = DecodeCalib(CalFill(loc.cal, 37, 5))
                 /\ pc' = "ac_mode" /\ stack' = <<"ag_begin">> \o stack
                 /\ result' = result
                 /\ loc' = [loc EXCEPT !.cal = CalFill(loc.cal, 37, 5)]
            ELSE /\ calib' = calib
                 /\ Abort
  /\ UNCHANGED <<op, cfg, ident, timing, meas, dev, hist>>

(* ------------------------------------------------------------------ *)
(* Compensation, as terms: the float32 formulas are not evaluated, a   *)
(* result is the formula's name applied to everything it reads         *)
(* ------------------------------------------------------------------ *)
\* calcTemperature stores d.TemperatureFine and returns it divided by 5120
TemperatureFineOf(k, adcTemp) ==
  [fn |-> "temperatureFine", args |-> <<adcTemp, k.t1, k.t2, k.t3>>]

calcTemperature(k, adcTemp) ==
  [fn |-> "calcTemperature", args |-> <<adcTemp, k.t1, k.t2, k.t3>>]

\* calcPressure reads d.TemperatureFine and the ten pressure coefficients
calcPressure(k, tfine, adcPres) ==
  [fn |-> "calcPressure",
   args |-> <<adcPres, tfine,
              <<k.p1, k.p2, k.p3, k.p4, k.p5, k.p6, k.p7, k.p8, k.p9, k.p10>>>>]

\* calcHumidity reads d.TemperatureFine and the seven humidity coefficients
calcHumidity(k, tfine, adcHum) ==
  [fn |-> "calcHumidity",
   args |-> <<adcHum, tfine, <<k.h1, k.h2, k.h3, k.h4, k.h5, k.h6, k.h7>>>>]

\* calcGasResistanceLow: 1/(var3*1.25e-7*2^range*((adc-512)/var2+1)), var2
\* positive; for the ADC values of Windows (above 512) a positive resistance
calcGasResistanceLow(k, adcGasRes, gasRange) ==
  [fn |-> "calcGasResistanceLow", args |-> <<adcGasRes, gasRange, k.rangeSwErr>>]

\* calcGasResistanceHigh: 1e6*(262144 >> range)/(3*(adc-512)+4096); for the
\* ADC value and range of Windows (240 and 9) a positive resistance
calcGasResistanceHigh(adcGasRes, gasRange) ==
  [fn |-> "calcGasResistanceHigh", args |-> <<adcGasRes, gasRange>>]

(* ------------------------------------------------------------------ *)
(* Read and readData                                                  *)
(* ------------------------------------------------------------------ *)
\* readData taking the gas flags from data[14] on every variant
DecodeWindowLowFlags(w, variantID) ==
  LET flags == w[15] IN
  [Status |-> Or(Or(And(w[1], NEW_DATA_MSK), And(flags, GASM_VALID_MSK)),
                 And(flags, HEAT_STAB_MSK)),
   GasIndex |-> And(w[1], GAS_INDEX_MSK),
   MeasIndex |-> w[2],
   adcPres |-> w[3] * 4096 + w[4] * 16 + w[5] \div 16,
   adcTemp |-> w[6] * 4096 + w[7] * 16 + w[8] \div 16,
   adcHum |-> w[9] * 256 + w[10],
   adcGasResLow |-> w[14] * 4 + w[15] \div 64,
   adcGasResHigh |-> w[16] * 4 + w[17] \div 64,
   gasRangeLow |-> And(w[15], GAS_RANGE_MSK),
   gasRangeHigh |-> And(w[17], GAS_RANGE_MSK)]

\* readData: what one 17-byte status window decodes to; w[k + 1] is data[k]
DecodeWindow(w, variantID) ==
  LET flags == IF variantID = VARIANT_GAS_HIGH THEN w[17] ELSE w[15] IN
  [Status |-> Or(Or(And(w[1], NEW_DATA_MSK), And(flags, GASM_VALID_MSK)),
                 And(flags, HEAT_STAB_MSK)),
   GasIndex |-> And(w[1], GAS_INDEX_MSK),
   MeasIndex |-> w[2],
   adcPres |-> w[3] * 4096 + w[4] * 16 + w[5] \div 16,
   adcTemp |-> w[6] * 4096 + w[7] * 16 + w[8] \div 16,
   adcHum |-> w[9] * 256 + w[10],
   adcGasResLow |-> w[14] * 4 + w[15] \div 64,
   adcGasResHigh |-> w[16] * 4 + w[17] \div 64,
   gasRangeLow |-> And(w[15], GAS_RANGE_MSK),
   gasRangeHigh |-> And(w[17], GAS_RANGE_MSK)]

\* mutant: every window is taken to carry new data
ReadDataAlwaysNewData(status) == TRUE

\* mutant: the gas-valid flag is taken for the new-data bit
ReadDataHasNewDataOnGasValid(status) == And(status, GASM_VALID_MSK) # 0

\* readData: new data is available
ReadDataHasNewData(status) == And(status, NEW_DATA_MSK) # 0

\* readData: gas data is available
ReadDataHasGas(status) == And(status, Or(HEAT_STAB_MSK, GASM_VALID_MSK)) # 0

\* mutant: the loop makes a sixth attempt
ReadDataContinuesToSix(i) == i < PollAttempts + 1

\* readData: the loop runs while i < 5
ReadDataContinues(i) == i < PollAttempts

\* readData: the gas resistance of a window with new data
GasResistanceOf(k, variantID, status, f) ==
  IF ReadDataHasGas(status)
    THEN IF variantID = VARIANT_GAS_HIGH
           THEN calcGasResistanceHigh(f.adcGasResHigh, f.gasRangeHigh)
           ELSE calcGasResistanceLow(k, f.adcGasResLow, f.gasRangeLow)
    ELSE ZeroVal

\* what the sensor model holds in a register outside its register file
DevRom(r) == (r * 7 + 3) % 256

DevReadByte(d, r) == IF r \in DevRegs THEN d.regs[r] ELSE DevRom(r)

\* the status windows the sensor model may answer with: a status byte (0x00
\* no new data at gas index 0, 0x81 new data at gas index 1), measurement
\* index 5, fixed ADC bytes, and the flag and range bytes of the two gas
\* layouts (each of the four flag combinations in either layout)
StatusBytes == {0, 129}
GasFlagPairs == {<<3, 57>>, <<19, 41>>, <<35, 25>>, <<115, 9>>}
MkWindow(status, low, high) ==
  <<status, 5, 74, 179, 80, 119, 33, 144, 82, 28, 0, 0, 0, 165, low, 60, high>>
Windows == {MkWindow(st, g[1], g[2]) : st \in StatusBytes, g \in GasFlagPairs}

\* status windows of one gas layout that differ in the temperature ADC
\* (data[5] is 0x77 or 0x78)
CompWindows ==
  {[MkWindow(st, 3, 57) EXCEPT ![6] = t] : st \in StatusBytes, t \in {119, 120}}

\* the windows a behaviour is answered with (where bus.use asks for windows
\* of different temperatures)
WindowChoices == IF bus.use = "compensate" THEN CompWindows ELSE Windows

\* wall clock in ms when Read takes its timestamp, and the ms that pass
\* until calRemainingReadingMillis looks again
ClockValues == {0, 1, 1000}
ElapsedValues == {0, 1}

\* calRemainingReadingMillis
calRemainingReadingMillis(measStart, measPeriod, now) ==
  IF measStart = 0 THEN -1
  ELSE IF measPeriod - (now - measStart) < 0 THEN 0
  ELSE measPeriod - (now - measStart)

\* Read with d.measPeriod = 0 left out
ClearStartOnly(t) == [t EXCEPT !.measStart = 0]

\* Read: d.measStart = 0; d.measPeriod = 0
ClearMarkers(t) == [t EXCEPT !.measStart = 0, !.measPeriod = 0]

\* Read's first statement: a measurement is in flight
MeasInFlight(t) == t.measStart # 0

\* Device.Read, called by the user: nothing happens while a measurement is
\* in flight, otherwise SetMode(ModeForced) begins
Read ==
  /\ hist' = [HistCall(hist) EXCEPT !.measBefore = meas, !.windowReads = 0,
                                      !.newData = FALSE, !.lastWin = <<>>]
  /\ IF MeasInFlight(timing)
       THEN /\ pc = "idle" /\ env.calls > 0
            /\ env' = [env EXCEPT !.calls = env.calls - 1]
            /\ lastTx' = NoTx
            /\ op' = "Read" /\ pc' = "idle" /\ stack' = <<>> /\ result' = "ok"
            /\ loc' = ZeroLoc
            /\ cfg' = cfg
       ELSE /\ Begin("Read", "sm_read", <<"rd_wait">>, SmLoc(ZeroLoc, ModeForced))
            /\ cfg' = [cfg EXCEPT !.mode = ModeForced]
  /\ UNCHANGED <<ident, timing, meas, dev, calib>>

\* Read: timestamp and period, the early return, then either the sleep
\* begins (calRemainingReadingMillis is positive; the length of the sleep is
\* DurWait's) or the markers are cleared at once and readData begins
ReadWait ==
  /\ pc = "rd_wait"
  /\ \E now \in ClockValues, elapsed \in ElapsedValues :
       LET period == MeasPeriodOf(cfg)
           remaining == calRemainingReadingMillis(now, period, now + elapsed)
       IN
       IF now + period = 0
         THEN /\ timing' = [measStart |-> now, measPeriod |-> period]
              /\ pc' = "idle" /\ stack' = <<>> /\ result' = "ok"
              /\ loc' = ZeroLoc
         ELSE IF remaining > 0
           THEN /\ timing' = [measStart |-> now, measPeriod |-> period]
                /\ Goto("rd_sleep", loc)
           ELSE /\ timing' = ClearMarkers([measStart |-> now,
                                            measPeriod |-> period])
                /\ Goto("rd_poll", [loc EXCEPT !.i = 0])
  /\ UNCHANGED <<op, cfg, ident, meas, dev, lastTx, hist, calib, env>>

\* Read: time.Sleep returns, the markers are cleared; readData begins
ReadWake ==
  /\ pc = "rd_sleep"
  /\ timing' = ClearMarkers(timing)
  /\ hist' = [hist EXCEPT !.guarded = "none"]
  /\ Goto("rd_poll", [loc EXCEPT !.i = 0])
  /\ UNCHANGED <<op, cfg, ident, meas, dev, lastTx, calib, env>>

\* an in-flight Read that goes on to take a timestamp of its own
ReadInFlightRestamps ==
  /\ pc = "rd_sleep"
  /\ hist.guarded = "none"
  /\ MeasInFlight(timing)
  /\ hist' = [hist EXCEPT !.guarded = "ok"]
  /\ timing' = [timing EXCEPT !.measStart = timing.measStart + 1]
  /\ UNCHANGED <<pc, stack, op, result, loc, cfg, ident, meas, dev,
                 lastTx, calib, env>>

\* Device.Read, called from another goroutine while the first call sleeps
\* (time.Sleep is where the scheduler lets it in): measStart is not zero and
\* the call returns nil; hist.guarded keeps what it returned
ReadInFlight ==
  /\ pc = "rd_sleep"
  /\ hist.guarded = "none"
  /\ MeasInFlight(timing)
  /\ hist' = [hist EXCEPT !.guarded = "ok"]
  /\ UNCHANGED <<pc, stack, op, result, loc, cfg, ident, timing, meas, dev,
                 lastTx, calib, env>>

\* readData: one attempt, the read of the 17-byte window of slot i
ReadDataPoll ==
  /\ pc = "rd_poll"
  /\ \E ok \in OkChoices, w \in WindowChoices :
       LET f == DecodeWindow(w, ident.VariantID)
           l == [loc EXCEPT !.fields = f, !.i = loc.i + 1]
       IN
       /\ Issue(TxGot(TxRead("rd_poll",
                             (MEAS_STATUS_0 + loc.i * WindowLen) % 256,
                             WindowLen, ok), w[1]))
       /\ IF ok
            THEN /\ meas' = [meas EXCEPT !.Status = f.Status,
                                         !.GasIndex = f.GasIndex,
                                         !.MeasIndex = f.MeasIndex]
                 /\ hist' = [hist EXCEPT
                               !.windowReads = hist.windowReads + 1,
                               !.newData = And(w[1], NEW_DATA_MSK) # 0,
                               !.lastWin = w]
                 /\ IF ReadDataHasNewData(f.Status) THEN Goto("rd_rh", l)
                    ELSE IF ReadDataContinues(loc.i + 1) THEN Goto("rd_poll", l)
                    ELSE Finish(l)
            ELSE /\ meas' = meas
                 /\ hist' = [hist EXCEPT !.windowReads = hist.windowReads + 1]
                 /\ Abort
  /\ UNCHANGED <<op, cfg, ident, timing, dev, calib>>

\* readData: read the heater resistance back at the profile's index
ReadDataResHeat ==
  /\ pc = "rd_rh"
  /\ \E ok \in OkChoices :
       LET r == (REG_RES_HEAT0 + meas.GasIndex) % 256 IN
       /\ Issue(TxRead("rd_rh", r, 1, ok))
       /\ IF ok
            THEN /\ meas' = [meas EXCEPT !.ResHeat = DevReadByte(dev, r)]
                 /\ Goto("rd_idac", loc)
            ELSE /\ meas' = meas
                 /\ Abort
  /\ UNCHANGED <<op, cfg, ident, timing, dev, hist, calib>>

\* readData: read the heater current back
ReadDataIdac ==
  /\ pc = "rd_idac"
  /\ \E ok \in OkChoices :
       LET r == (REG_IDAC_HEAT0 + meas.GasIndex) % 256 IN
       /\ Issue(TxRead("rd_idac", r, 1, ok))
       /\ IF ok
            THEN /\ meas' = [meas EXCEPT !.Idac = DevReadByte(dev, r)]
                 /\ Goto("rd_gw", loc)
            ELSE /\ meas' = meas
                 /\ Abort
  /\ UNCHANGED <<op, cfg, ident, timing, dev, hist, calib>>

\* mutant: the pressure is compensated before the temperature
CompensatePressureFirst(m, k, f) ==
  LET m1 == [m EXCEPT !.Pressure = calcPressure(k, m.TemperatureFine, f.adcPres)]
      m2 == [m1 EXCEPT !.TemperatureFine = TemperatureFineOf(k, f.adcTemp),
                       !.Temperature = calcTemperature(k, f.adcTemp)]
  IN [m2 EXCEPT !.Humidity = calcHumidity(k, m2.TemperatureFine, f.adcHum)]

\* readData: d.Temperature = d.calcTemperature(adcTemp), which stores
\* d.TemperatureFine; then d.calcPressure(adcPres) and d.calcHumidity(adcHum),
\* which read d.TemperatureFine
Compensate(m, k, f) ==
  LET m1 == [m EXCEPT !.TemperatureFine = TemperatureFineOf(k, f.adcTemp),
                      !.Temperature = calcTemperature(k, f.adcTemp)]
      m2 == [m1 EXCEPT !.Pressure = calcPressure(k, m1.TemperatureFine, f.adcPres)]
  IN [m2 EXCEPT !.Humidity = calcHumidity(k, m2.TemperatureFine, f.adcHum)]

\* readData: read the gas wait back, then compensate temperature, pressure,
\* humidity and gas resistance, and stop attempting
ReadDataGasWait ==
  /\ pc = "rd_gw"
  /\ \E ok \in OkChoices :
       LET r == (REG_GAS_WAIT0 + meas.GasIndex) % 256
           f == loc.fields
       IN
       /\ Issue(TxRead("rd_gw", r, 1, ok))
       /\ IF ok
            THEN /\ meas' = [Compensate([meas EXCEPT
                                           !.GasWait = DevReadByte(dev, r)],
                                        calib, f)
                               EXCEPT !.GasResistance =
                                  GasResistanceOf(calib, ident.VariantID,
                                                  meas.Status, f)]
                 /\ Finish(loc)
            ELSE /\ meas' = meas
                 /\ Abort
  /\ UNCHANGED <<op, cfg, ident, timing, dev, hist, calib>>

(* ------------------------------------------------------------------ *)
(* Paged transport (spi) and the sensor behind it                     *)
(* ------------------------------------------------------------------ *)
\* the sensor of the paged transport: its page-select bit, the other bits of
\* the register that holds it, and how many writes of that register and how
\* many soft resets it has taken
SpiDevIdle == [page |-> 0, st |-> 0, pageWrites |-> 0, resets |-> 0]

\* the sensor takes one (register byte, value) pair of a write transaction:
\* the page register is on both pages, the reset register on the page of the
\* registers above 0x7F; a soft reset puts the page bit back to 0
SpiDevWritePair(d, r, v) ==
  IF And(r, SPI_WR_MSK) = And(REG_MEM_PAGE, SPI_WR_MSK)
    THEN [d EXCEPT !.page = And(v, MEM_PAGE_MSK),
                   !.pageWrites = d.pageWrites + 1]
  ELSE IF /\ And(r, SPI_WR_MSK) = And(REG_SOFT_RESET, SPI_WR_MSK)
          /\ d.page = MEM_PAGE1
          /\ v = CMD_RESET
    THEN [d EXCEPT !.page = 0, !.resets = d.resets + 1]
  ELSE d

RECURSIVE SpiDevWriteFrom(_, _, _)
SpiDevWriteFrom(d, w, k) ==
  IF 2 * k > Len(w) THEN d
  ELSE SpiDevWriteFrom(SpiDevWritePair(d, w[2 * k - 1], w[2 * k]), w, k + 1)

\* the sensor takes the bytes w the driver shifts out in one transaction:
\* bit 7 of the first byte set is a read, which changes nothing; otherwise
\* the bytes are (register, value) pairs
SpiDevTx(d, w) ==
  IF Bit(w[1], 7) = 1 THEN d ELSE SpiDevWriteFrom(d, w, 1)

\* the sensor answers a read of the page register
SpiDevPageReg(d) == Or(AndNot(d.st, MEM_PAGE_MSK), d.page)

\* setMemoryPage: the page of a register
PageOf(reg) == IF reg > PageBoundary THEN MEM_PAGE1 ELSE MEM_PAGE0

NoSet == [reg |-> -1, prev |-> -1, done |-> FALSE, w0 |-> 0, wb |-> 0]

\* the transactions of the call in progress: how many, how many of them reads
\* of the page register, how many page reads had been made when the data
\* write went out (-1 before), whether one failed, and how many were issued
\* after a failed one
NoIo == [txs |-> 0, pageReads |-> 0, atCmd |-> -1, failed |-> FALSE,
         afterFail |-> 0, cache0 |-> 0]

PageReadSites == {"sp_pgread", "sp_rp1", "sp_rp2"}

SpiIo(io, site, ok) ==
  [io EXCEPT !.txs = io.txs + 1,
             !.pageReads = io.pageReads + IF site \in PageReadSites THEN 1 ELSE 0,
             !.atCmd = IF site = "sp_wtx" THEN io.pageReads ELSE io.atCmd,
             !.failed = io.failed \/ ~ok,
             !.afterFail = io.afterFail + IF io.failed THEN 1 ELSE 0]

\* a new spi: memoryPage is the zero value
SpiIdle ==
  [memoryPage |-> 0, pc |-> "idle", stack |-> <<>>, op |-> "none",
   result |-> "none", regs |-> <<>>, data |-> <<>>, i |-> 0,
   buf |-> [k \in 1 .. LEN_INTERLEAVE_BUFF |-> 0], reg |-> 0, page |-> 0,
   d0 |-> 0, lastReg |-> -1, set |-> NoSet, io |-> NoIo,
   calls |-> MaxCalls, faults |-> MaxFaults]

NoSpiTx ==
  [site |-> "none", kind |-> "none", w |-> <<>>, rlen |-> 0, ok |-> TRUE,
   devPage |-> 0, need |-> 0]

\* one bus.Tx(w, r): what is shifted out, how many bytes are taken in, and
\* the sensor's page bit when the transaction is issued
SpiTxOf(site, kind, w, rlen, ok, need) ==
  [site |-> site, kind |-> kind, w |-> w, rlen |-> rlen, ok |-> ok,
   devPage |-> spiDev.page, need |-> need]

SpiOkChoices == IF spi.faults > 0 THEN BOOLEAN ELSE {TRUE}

SpiFaults(ok) == IF ok THEN spi.faults ELSE spi.faults - 1

\* the function in progress returns nil
SpiReturn(s) ==
  IF s.stack = <<>>
    THEN [s EXCEPT !.pc = "idle", !.result = "ok"]
    ELSE [s EXCEPT !.pc = Head(s.stack), !.stack = Tail(s.stack)]

\* an error is returned up to the caller of the transport
SpiAbort(s) == [s EXCEPT !.pc = "idle", !.stack = <<>>, !.result = "err"]

\* a call of the transport begins
SpiBegin(name, regs, data) ==
  [spi EXCEPT !.op = name, !.result = "none", !.regs = regs, !.data = data,
              !.i = 0, !.buf = [k \in 1 .. LEN_INTERLEAVE_BUFF |-> 0],
              !.set = NoSet, !.io = [NoIo EXCEPT !.cache0 = spi.memoryPage],
              !.calls = spi.calls - 1]

\* registers and register lists the transport is called with
SpiReadRegs == {REG_CTRL_MEAS, REG_CHIP_ID, REG_COEFF1}
SpiWriteArgs == {<<<<REG_CTRL_MEAS>>, <<37>>>>,
                 <<<<REG_CTRL_GAS_0, REG_CTRL_GAS_1>>, <<0, 16>>>>}

\* spi.Write does anything only for 1..LEN_INTERLEAVE_BUFF/2 data bytes
SpiWriteIssues(data) ==
  Len(data) > 0 /\ Len(data) <= LEN_INTERLEAVE_BUFF \div 2

\* spi.Read, called with a register
SpiRead(reg) ==
  /\ spi.pc = "idle" /\ spi.calls > 0
  /\ spi' = [SpiBegin("Read", <<reg>>, <<>>) EXCEPT
               !.pc = "sp_set", !.reg = reg, !.stack = <<"sp_read">>]
  /\ UNCHANGED <<spiDev, spiTx>>

\* spi.Write, called with registers and their values (1 to 10 of them)
SpiWrite(regs, data) ==
  /\ spi.pc = "idle" /\ spi.calls > 0
  /\ spi' = IF SpiWriteIssues(data)
               THEN [SpiBegin("Write", regs, data) EXCEPT
                       !.pc = "sp_set", !.reg = regs[1],
                       !.stack = <<"sp_wnext">>]
               ELSE [SpiBegin("Write", regs, data) EXCEPT !.result = "ok"]
  /\ UNCHANGED <<spiDev, spiTx>>

\* spi.Reset, called
SpiReset ==
  /\ spi.pc = "idle" /\ spi.calls > 0
  /\ spi' = [SpiBegin("Reset", <<REG_SOFT_RESET>>, <<CMD_RESET>>) EXCEPT
               !.pc = "sp_rp1"]
  /\ UNCHANGED <<spiDev, spiTx>>

\* setMemoryPage up to its first transaction: nothing to do when the cache
\* holds the page, otherwise the cache takes the page before any I/O
SpiSetMemoryPage ==
  /\ spi.pc = "sp_set"
  /\ LET page == PageOf(spi.reg)
         s == [spi EXCEPT !.page = page, !.lastReg = spi.reg,
                          !.set = [reg |-> spi.reg, prev |-> spi.lastReg,
                                   done |-> page = spi.memoryPage,
                                   w0 |-> spiDev.pageWrites, wb |-> 0]]
     IN spi' = IF page = spi.memoryPage THEN SpiReturn(s)
               ELSE [s EXCEPT !.memoryPage = page, !.pc = "sp_pgread"]
  /\ UNCHANGED <<spiDev, spiTx>>

\* setMemoryPage: read the page register, clear its page bit, OR in the page
SpiPageRead ==
  /\ spi.pc = "sp_pgread"
  /\ \E ok \in SpiOkChoices :
       LET data0 == SpiDevPageReg(spiDev)
           s == [spi EXCEPT !.faults = SpiFaults(ok),
                            !.io = SpiIo(spi.io, "sp_pgread", ok)]
       IN
       /\ spiTx' = SpiTxOf("sp_pgread", "page",
                           <<Or(Or(REG_MEM_PAGE, SPI_RD_MSK), SPI_RD_MSK)>>,
                           1, ok, -1)
       /\ spi' = IF ok
                   THEN [s EXCEPT !.pc = "sp_pgwrite",
                                  !.d0 = Or(AndNot(data0, MEM_PAGE_MSK),
                                            And(spi.page, MEM_PAGE_MSK))]
                   ELSE SpiAbort(s)
  /\ UNCHANGED spiDev

\* setMemoryPage: bus.Tx([]byte{REG_MEM_PAGE | SPI_WR_MSK}, []byte{data[0]}),
\* one byte shifted out, the value in the buffer that is shifted in
SpiPageWriteBack ==
  /\ spi.pc = "sp_pgwrite"
  /\ \E ok \in SpiOkChoices :
       LET w == <<Or(REG_MEM_PAGE, SPI_WR_MSK)>>
           s == [spi EXCEPT !.faults = SpiFaults(ok),
                            !.io = SpiIo(spi.io, "sp_pgwrite", ok),
                            !.set.wb = spi.set.wb + 1]
       IN
       /\ spiTx' = SpiTxOf("sp_pgwrite", "page", w, 1, ok, -1)
       /\ spiDev' = IF ok THEN SpiDevTx(spiDev, w) ELSE spiDev
       /\ spi' = IF ok THEN SpiReturn([s EXCEPT !.set.done = TRUE])
                 ELSE SpiAbort(s)

\* spi.read of the register Read was called with
SpiDataRead ==
  /\ spi.pc = "sp_read"
  /\ \E ok \in SpiOkChoices :
       LET s == [spi EXCEPT !.faults = SpiFaults(ok),
                            !.io = SpiIo(spi.io, "sp_read", ok)]
       IN
       /\ spiTx' = SpiTxOf("sp_read", "data", <<Or(spi.regs[1], SPI_RD_MSK)>>,
                           1, ok, PageOf(spi.regs[1]))
       /\ spi' = IF ok THEN SpiReturn(s) ELSE SpiAbort(s)
  /\ UNCHANGED spiDev

\* Write: after setMemoryPage(reg[i]) the pair goes into the buffer; the loop
\* goes on to the next register or ends
SpiWriteNext ==
  /\ spi.pc = "sp_wnext"
  /\ LET k == spi.i + 1
         s == [spi EXCEPT !.i = k,
                 !.buf = [spi.buf EXCEPT ![2 * k - 1] = And(spi.regs[k], SPI_WR_MSK),
                                         ![2 * k] = spi.data[k]]]
     IN spi' = IF k < Len(spi.data)
                 THEN [s EXCEPT !.pc = "sp_set", !.reg = spi.regs[k + 1],
                                !.stack = <<"sp_wnext">> \o spi.stack]
                 ELSE [s EXCEPT !.pc = "sp_wtx"]
  /\ UNCHANGED <<spiDev, spiTx>>

\* Write: bus.Tx(buf, nil), the whole buffer
SpiWriteTx ==
  /\ spi.pc = "sp_wtx"
  /\ \E ok \in SpiOkChoices :
       LET w == [k \in 1 .. LEN_INTERLEAVE_BUFF |-> spi.buf[k]]
           s == [spi EXCEPT !.faults = SpiFaults(ok),
                            !.io = SpiIo(spi.io, "sp_wtx", ok)]
       IN
       /\ spiTx' = SpiTxOf("sp_wtx", "data", w, 0, ok, PageOf(spi.regs[1]))
       /\ spiDev' = IF ok THEN SpiDevTx(spiDev, w) ELSE spiDev
       /\ spi' = IF ok THEN SpiReturn(s) ELSE SpiAbort(s)

\* mutant: readMemoryPage caches the whole register byte
ReadMemoryPageCacheUnmasked(v) == v

\* readMemoryPage: s.memoryPage = reg[0] & MEM_PAGE_MSK
ReadMemoryPageCache(v) == And(v, MEM_PAGE_MSK)

\* Reset: after the first readMemoryPage, Write(REG_SOFT_RESET, CMD_RESET)
ResetThenWrite(s) ==
  [s EXCEPT !.pc = "sp_set", !.reg = s.regs[1],
            !.stack = <<"sp_wnext", "sp_rp2">>]

\* readMemoryPage at a site of Reset: the cache takes the page bit the sensor
\* reports; Reset goes on to its Write after the first, returns after the second
ReadMemoryPage(site) ==
  /\ spi.pc = site
  /\ \E ok \in SpiOkChoices :
       LET s == [spi EXCEPT !.faults = SpiFaults(ok),
                            !.io = SpiIo(spi.io, site, ok)]
           t == [s EXCEPT !.lastReg = -1,
                          !.memoryPage = ReadMemoryPageCache(SpiDevPageReg(spiDev))]
       IN
       /\ spiTx' = SpiTxOf(site, "page",
                           <<Or(Or(REG_MEM_PAGE, SPI_RD_MSK), SPI_RD_MSK)>>,
                           1, ok, -1)
       /\ spi' = IF ~ok THEN SpiAbort(s)
                 ELSE IF site = "sp_rp1" THEN ResetThenWrite(t)
                 ELSE SpiReturn(t)
  /\ UNCHANGED spiDev

\* Reset: the readMemoryPage before the soft reset
SpiResetPage1 == ReadMemoryPage("sp_rp1")

\* Reset: after the wait, the second readMemoryPage
SpiResetPage2 == ReadMemoryPage("sp_rp2")

(* ------------------------------------------------------------------ *)
(* The addressed transport called directly                            *)
(* ------------------------------------------------------------------ *)
\* the transport a Device is built on, and the last call of the addressed
\* transport: its arguments, its result, the transactions it issued and the
\* bytes its read brought back; Device.address and Config.PeriodPoll, the
\* options run so far, and the one operation a behaviour calls where a
\* specification restricts it to one
BusIdle ==
  [kind |-> "i2c", op |-> "none", result |-> "none", regs |-> <<>>,
   data |-> <<>>, rlen |-> 0, txs |-> 0, got |-> <<>>,
   address |-> Address, PeriodPoll |-> PeriodPoll, opts |-> 0,
   use |-> "none", optlog |-> <<>>]

\* n registers from REG_CTRL_GAS_0 on (wrapping after REG_CONFIG) and n values
PairRegs(n) == [k \in 1 .. n |-> REG_CTRL_GAS_0 + ((k - 1) % 6)]
PairData(n) == [k \in 1 .. n |-> 4 * k]

\* what Write is called with on either transport: no pair, one, two, the
\* most the buffer takes, and one more than that
WritePairCounts == {0, 1, 2, LEN_INTERLEAVE_BUFF \div 2,
                    LEN_INTERLEAVE_BUFF \div 2 + 1}
BusWriteArgs == {<<PairRegs(n), PairData(n)>> : n \in WritePairCounts}

\* what i2c.Read is called with: a register and a buffer length
I2cReadArgs == {<<REG_CTRL_MEAS, 1>>, <<REG_CTRL_GAS_1, 5>>, <<REG_CHIP_ID, 1>>}

\* a call of the addressed transport is made
I2cBegin ==
  /\ bus.kind = "i2c"
  /\ pc = "idle" /\ env.calls > 0

\* i2c.Read: bus.Tx(addr, []byte{reg}, data)
I2cRead(reg, n) ==
  /\ I2cBegin
  /\ \E ok \in OkChoices :
       /\ lastTx' = TxRead("i2c_read", reg, n, ok)
       /\ env' = [calls |-> env.calls - 1,
                  faults |-> IF ok THEN env.faults ELSE env.faults - 1]
       /\ bus' = [bus EXCEPT
                    !.op = "Read", !.regs = <<reg>>, !.data = <<>>, !.rlen = n,
                    !.txs = 1, !.result = IF ok THEN "ok" ELSE "err",
                    !.got = IF ok THEN [k \in 1 .. n |->
                                          DevReadByte(dev, reg + k - 1)]
                            ELSE <<>>]
  /\ UNCHANGED dev

\* i2c.Write: the pairs go into the buffer and one transaction sends it, or
\* nothing happens
I2cWrite(regs, data) ==
  /\ I2cBegin
  /\ IF I2cWriteIssues(data)
       THEN \E ok \in OkChoices, honor \in HonorChoices(dev) :
              /\ lastTx' = TxWrite("i2c_write", regs, data, ok)
              /\ env' = [calls |-> env.calls - 1,
                         faults |-> IF ok THEN env.faults ELSE env.faults - 1]
              /\ dev' = IF ok THEN DevWrite(dev, I2cWriteBuf(regs, data), honor)
                        ELSE dev
              /\ bus' = [bus EXCEPT
                           !.op = "Write", !.regs = regs, !.data = data,
                           !.rlen = 0, !.txs = 1, !.got = <<>>,
                           !.result = IF ok THEN "ok" ELSE "err"]
       ELSE /\ lastTx' = NoTx
            /\ env' = [env EXCEPT !.calls = env.calls - 1]
            /\ dev' = dev
            /\ bus' = [bus EXCEPT
                         !.op = "Write", !.regs = regs, !.data = data,
                         !.rlen = 0, !.txs = 0, !.got = <<>>, !.result = "ok"]

\* i2c.Reset: Write(REG_SOFT_RESET, CMD_RESET), then the wait
I2cReset ==
  /\ I2cBegin
  /\ \E ok \in OkChoices :
       /\ lastTx' = TxWrite("i2c_reset", <<REG_SOFT_RESET>>, <<CMD_RESET>>, ok)
       /\ env' = [calls |-> env.calls - 1,
                  faults |-> IF ok THEN env.faults ELSE env.faults - 1]
       /\ dev' = IF ok
                   THEN DevWrite(dev, I2cWriteBuf(<<REG_SOFT_RESET>>,
                                                  <<CMD_RESET>>), TRUE)
                   ELSE dev
       /\ bus' = [bus EXCEPT
                    !.op = "Reset", !.regs = <<REG_SOFT_RESET>>,
                    !.data = <<CMD_RESET>>, !.rlen = 0, !.txs = 1, !.got = <<>>,
                    !.result = IF ok THEN "ok" ELSE "err"]

(* ------------------------------------------------------------------ *)
(* Construction: NewI2C, NewSPI, new and the options                  *)
(* ------------------------------------------------------------------ *)
\* the Device new() builds before the options run; tx is what has been put
\* on the bus
NewDevice ==
  [address |-> Address, PeriodPoll |-> PeriodPoll, config |-> DefaultConfig,
   tx |-> NoTx]

WithAddress(d, addr) == [d EXCEPT !.address = addr]

WithPeriodPoll(d, period) == [d EXCEPT !.PeriodPoll = period]

\* mutant: the option also writes the mode to the sensor
WithModeApplied(d, mode) ==
  [d EXCEPT !.config.mode = mode,
            !.tx = TxWrite("new", <<REG_CTRL_MEAS>>, <<mode>>, TRUE)]

WithMode(d, mode) == [d EXCEPT !.config.mode = mode]

WithIIRFilter(d, filter) == [d EXCEPT !.config.IIR = filter]

WithHumidityOversampling(d, os) == [d EXCEPT !.config.Humidity = os]

\* the pressure option storing into the temperature setting
WithPressureOversamplingSlip(d, os) == [d EXCEPT !.config.Temperature = os]

WithPressureOversampling(d, os) == [d EXCEPT !.config.Pressure = os]

WithTemperatureOversampling(d, os) == [d EXCEPT !.config.Temperature = os]

WithHeatrTemperature(d, temp) == [d EXCEPT !.config.HeatrTemp = temp]

WithHeatrDuration(d, duration) == [d EXCEPT !.config.HeatrDur = duration]

WithAmbientTemperature(d, temp) ==
  [d EXCEPT !.config.AmbientTemperature = temp]

\* the options a caller may pass, each with an argument other than the default
NewOptions ==
  {<<"WithAddress", 118>>, <<"WithPeriodPoll", 5000>>,
   <<"WithMode", ModeSleep>>, <<"WithIIRFilter", Coeff128>>,
   <<"WithHumidityOversampling", Sampling16X>>,
   <<"WithPressureOversampling", Sampling16X>>,
   <<"WithTemperatureOversampling", Sampling16X>>,
   <<"WithHeatrTemperature", 0>>, <<"WithHeatrDuration", 0>>,
   <<"WithAmbientTemperature", 20>>}

\* option(device)
ApplyOption(o, d) ==
  CASE o[1] = "WithAddress" -> WithAddress(d, o[2])
    [] o[1] = "WithPeriodPoll" -> WithPeriodPoll(d, o[2])
    [] o[1] = "WithMode" -> WithMode(d, o[2])
    [] o[1] = "WithIIRFilter" -> WithIIRFilter(d, o[2])
    [] o[1] = "WithHumidityOversampling" -> WithHumidityOversampling(d, o[2])
    [] o[1] = "WithPressureOversampling" -> WithPressureOversampling(d, o[2])
    [] o[1] = "WithTemperatureOversampling" ->
         WithTemperatureOversampling(d, o[2])
    [] o[1] = "WithHeatrTemperature" -> WithHeatrTemperature(d, o[2])
    [] o[1] = "WithHeatrDuration" -> WithHeatrDuration(d, o[2])
    [] o[1] = "WithAmbientTemperature" -> WithAmbientTemperature(d, o[2])

\* the same options with a second argument each, so that two options of a
\* call can target one setting with different values
OrderOptions ==
  NewOptions \cup
  {<<"WithAddress", 120>>, <<"WithPeriodPoll", 20000>>,
   <<"WithMode", ModeForced>>, <<"WithIIRFilter", Coeff4>>,
   <<"WithHumidityOversampling", Sampling1X>>,
   <<"WithPressureOversampling", Sampling1X>>,
   <<"WithTemperatureOversampling", Sampling1X>>,
   <<"WithHeatrTemperature", 200>>, <<"WithHeatrDuration", 100>>,
   <<"WithAmbientTemperature", 30>>}

\* new: the loop over opts runs one more option, one of opts; bus.optlog
\* keeps the options in the order they ran (where bus.use asks for it)
NewOptionFrom(opts) ==
  /\ pc = "new" /\ bus.opts < MaxOptions
  /\ \E o \in opts :
       LET d == ApplyOption(o, [address |-> bus.address,
                                PeriodPoll |-> bus.PeriodPoll,
                                config |-> cfg, tx |-> lastTx])
       IN /\ cfg' = d.config
          /\ lastTx' = d.tx
          /\ bus' = [bus EXCEPT !.address = d.address,
                                !.PeriodPoll = d.PeriodPoll,
                                !.opts = bus.opts + 1,
                                !.optlog = IF bus.use = "new"
                                             THEN Append(bus.optlog, o)
                                             ELSE bus.optlog]
  /\ UNCHANGED <<pc, stack, op, result, loc, ident, timing, meas, dev, hist,
                 calib, env, spiVars, dur>>

NewOption == NewOptionFrom(NewOptions)

NewOrderOption == NewOptionFrom(OrderOptions)

\* new: return device
NewReturn ==
  /\ pc = "new"
  /\ pc' = "idle"
  /\ UNCHANGED <<stack, op, result, loc, cfg, ident, timing, meas, dev, lastTx,
                 hist, calib, env, spiVars, dur, bus>>

(* ------------------------------------------------------------------ *)
(* Specification of the configuration operations                      *)
(* ------------------------------------------------------------------ *)
\* contents of the sensor's registers when the driver first meets it
Fills == {255}
DevStartModes == 0 .. MODE_MSK

NoDur ==
  [T |-> 0, P |-> 0, H |-> 0, HeatrDur |-> 0, step |-> "none", period |-> 0,
   slept |-> 0]

\* new(): the Device as constructed, before any bus traffic
InitDriver ==
  /\ pc = "idle" /\ stack = <<>> /\ op = "none" /\ result = "none"
  /\ loc = ZeroLoc
  /\ cfg = DefaultConfig
  /\ ident = [chipID |-> 0, VariantID |-> 0]
  /\ timing = [measStart |-> 0, measPeriod |-> 0]
  /\ meas = ZeroMeas
  /\ calib = ZeroCalib
  /\ lastTx = NoTx
  /\ hist = ZeroHist
  /\ env = [calls |-> MaxCalls, faults |-> MaxFaults]
  /\ \E fill \in Fills, m \in DevStartModes :
       dev = [regs |-> [r \in DevRegs |->
                          IF r = REG_CTRL_MEAS THEN AndNot(fill, MODE_MSK) + m
                          ELSE fill],
              lag |-> 0]

InitCfg ==
  /\ InitDriver
  /\ spi = SpiIdle /\ spiDev = SpiDevIdle /\ spiTx = NoSpiTx
  /\ bus = BusIdle
  /\ dur = NoDur

NextCfg ==
  /\ \/ Configure
     \/ Connected
     \/ Reset
     \/ Mode
     \/ \E m \in Modes : SetMode(m)
     \/ \E os \in OsArgs : SetTemperatureOversampling(os)
     \/ \E os \in OsArgs : SetPressureOversampling(os)
     \/ \E os \in OsArgs : SetHumidityOversampling(os)
     \/ \E fc \in IIRArgs : SetIIRFilter(fc)
     \/ \E odr \in ODRArgs : SetODR(odr)
     \/ \E h \in HeaterArgs : SetGasHeater(h[1], h[2], h[3])
     \/ ConnectedRead
     \/ ResetWrite
     \/ ChipIdRead
     \/ VariantRead
     \/ CalRead1
     \/ CalRead2
     \/ CalRead3
     \/ ModeRead
     \/ SetModeRead
     \/ SetModeClear
     \/ SetModeTarget
     \/ ApplyConfigMode
     \/ ApplyConfigReadWindow
     \/ ApplyConfigWriteWindow
     \/ ApplyGasBegin
     \/ HeatrWriteRes
     \/ HeatrWriteGasWait
     \/ ApplyGasReadCtrl
     \/ ApplyGasWriteCtrl
  /\ UNCHANGED <<spiVars, dur, bus>>

SpecCfg == InitCfg /\ [][NextCfg]_vars

(* ------------------------------------------------------------------ *)
(* Specification of the measurement cycle                             *)
(* ------------------------------------------------------------------ *)
\* the identity and calibration Configure leaves in the Device a Read is
\* called on, for a low-range and for a high-range sensor
ConfiguredIdents == {<<CHIP_ID, 0, DecodeCalib(DevCalRom)>>,
                     <<CHIP_ID, VARIANT_GAS_HIGH, DecodeCalib(DevCalRom)>>}

\* a configured Device with one of the Configs cfgs, on a sensor whose
\* registers hold one of fills, in one of the power modes, with calls
\* operations to come
InitReadOn(idents, cfgs, fills, modes, calls) ==
  /\ pc = "idle" /\ stack = <<>> /\ op = "none" /\ result = "none"
  /\ loc = ZeroLoc
  /\ cfg \in cfgs
  /\ \E c \in idents :
       /\ ident = [chipID |-> c[1], VariantID |-> c[2]]
       /\ calib = c[3]
  /\ timing = [measStart |-> 0, measPeriod |-> 0]
  /\ meas = ZeroMeas
  /\ lastTx = NoTx
  /\ hist = ZeroHist
  /\ env = [calls |-> calls, faults |-> MaxFaults]
  /\ \E fill \in fills, m \in modes :
       dev = [regs |-> [r \in DevRegs |->
                          IF r = REG_CTRL_MEAS THEN AndNot(fill, MODE_MSK) + m
                          ELSE fill],
              lag |-> 0]
  /\ spi = SpiIdle /\ spiDev = SpiDevIdle /\ spiTx = NoSpiTx
  /\ bus = BusIdle
  /\ dur = NoDur

InitRead ==
  InitReadOn(ConfiguredIdents, {DefaultConfig}, Fills, DevStartModes, MaxCalls)

NextRead ==
  /\ \/ Read
     \/ SetModeRead
     \/ SetModeClear
     \/ SetModeTarget
     \/ ReadWait
     \/ ReadWake
     \/ ReadInFlight
     \/ ReadDataPoll
     \/ ReadDataResHeat
     \/ ReadDataIdac
     \/ ReadDataGasWait
  /\ UNCHANGED <<spiVars, dur, bus>>

SpecRead == InitRead /\ [][NextRead]_vars

(* ------------------------------------------------------------------ *)
(* Specification of Read's in-flight markers: Read on a Device whose   *)
(* measurement period is 51 ms (the defaults) or 0 ms (the duration in *)
(* microseconds just past 16 bits), with the clock at 0 included       *)
(* ------------------------------------------------------------------ *)
\* the defaults, and a heater duration (33 ms) with which the period in
\* microseconds wraps to less than a millisecond
FlightConfigs == {DefaultConfig, [DefaultConfig EXCEPT !.HeatrDur = 33]}
FlightIdents == {<<CHIP_ID, VARIANT_GAS_HIGH, DecodeCalib(DevCalRom)>>}
FlightModes == {ModeSleep, ModeForced}

InitFlight ==
  InitReadOn(FlightIdents, FlightConfigs, Fills, FlightModes, MaxCalls)

SpecFlight == InitFlight /\ [][NextRead]_vars

(* ------------------------------------------------------------------ *)
(* Specification of the data fetch: FetchCalls Reads on a sensor of    *)
(* either variant                                                      *)
(* ------------------------------------------------------------------ *)
InitFetch ==
  InitReadOn(ConfiguredIdents, {DefaultConfig}, Fills, FlightModes, FetchCalls)

SpecFetch == InitFetch /\ [][NextRead]_vars

(* ------------------------------------------------------------------ *)
(* Specification of the compensation: Reads on a sensor whose          *)
(* temperature ADC differs from one window to the next, with a         *)
(* measurement period of 51 ms or of 0 ms                              *)
(* ------------------------------------------------------------------ *)
InitComp ==
  /\ pc = "idle" /\ stack = <<>> /\ op = "none" /\ result = "none"
  /\ loc = ZeroLoc
  /\ cfg \in FlightConfigs
  /\ \E c \in ConfiguredIdents :
       /\ ident = [chipID |-> c[1], VariantID |-> c[2]]
       /\ calib = c[3]
  /\ timing = [measStart |-> 0, measPeriod |-> 0]
  /\ meas = ZeroMeas
  /\ lastTx = NoTx
  /\ hist = ZeroHist
  /\ env = [calls |-> MaxCalls, faults |-> MaxFaults]
  /\ dev = [regs |-> [r \in DevRegs |->
                        IF r = REG_CTRL_MEAS THEN AndNot(255, MODE_MSK) + ModeSleep
                        ELSE 255],
            lag |-> 0]
  /\ spi = SpiIdle /\ spiDev = SpiDevIdle /\ spiTx = NoSpiTx
  /\ bus = [BusIdle EXCEPT !.use = "compensate"]
  /\ dur = NoDur

SpecComp == InitComp /\ [][NextRead]_vars

(* ------------------------------------------------------------------ *)
(* Specification of SetMode alone: any Mode byte as the target, on a   *)
(* sensor whose mode register holds different oversampling bits        *)
(* ------------------------------------------------------------------ *)
\* SetMode's argument: the two named modes, the other values of the mode
\* field, and a byte with bits set above the field
ModeArgs == {ModeSleep, ModeForced, 2, 3, 253}

\* bits 7..2 of the mode register before the call: none, alternating, all
ModeFills == {0, 84, 168, 252}

InitMode ==
  /\ pc = "idle" /\ stack = <<>> /\ op = "none" /\ result = "none"
  /\ loc = ZeroLoc
  /\ cfg = DefaultConfig
  /\ ident = [chipID |-> CHIP_ID, VariantID |-> 0]
  /\ calib = DecodeCalib(DevCalRom)
  /\ timing = [measStart |-> 0, measPeriod |-> 0]
  /\ meas = ZeroMeas
  /\ lastTx = NoTx
  /\ hist = ZeroHist
  /\ env = [calls |-> MaxCalls, faults |-> MaxFaults]
  /\ \E fill \in ModeFills, m \in DevStartModes :
       dev = [regs |-> [r \in DevRegs |->
                          IF r = REG_CTRL_MEAS THEN fill + m ELSE 255],
              lag |-> 0]
  /\ spi = SpiIdle /\ spiDev = SpiDevIdle /\ spiTx = NoSpiTx
  /\ bus = BusIdle
  /\ dur = NoDur

NextMode ==
  /\ \/ \E m \in ModeArgs : SetMode(m)
     \/ SetModeRead
     \/ SetModeClear
     \/ SetModeTarget
  /\ UNCHANGED <<spiVars, dur, bus>>

SpecMode == InitMode /\ [][NextMode]_vars

(* ------------------------------------------------------------------ *)
(* Specification of the measurement period: Read's arithmetic between  *)
(* SetMode and readData, applied to every Config of the sample         *)
(* ------------------------------------------------------------------ *)
\* the six oversampling levels, and heater durations in ms around the point
\* where the duration in microseconds passes 16 bits, up to the largest
SamplingLevels == SamplingOff .. Sampling16X
HeatrDurSamples == {0, 60, 61, 150, 65535}

\* the Config whose period is computed
DurConfig ==
  [DefaultConfig EXCEPT !.Temperature = dur.T, !.Pressure = dur.P,
                        !.Humidity = dur.H, !.HeatrDur = dur.HeatrDur]

InitDur ==
  /\ InitDriver
  /\ spi = SpiIdle /\ spiDev = SpiDevIdle /\ spiTx = NoSpiTx
  /\ bus = BusIdle
  /\ \E t \in SamplingLevels, p \in SamplingLevels, h \in SamplingLevels,
        hd \in HeatrDurSamples :
       dur = [T |-> t, P |-> p, H |-> h, HeatrDur |-> hd, step |-> "start",
              period |-> 0, slept |-> 0]

\* Read: d.measPeriod = uint16(delayusPeriod) / 1000
DurRecord ==
  /\ dur.step = "start"
  /\ dur' = [dur EXCEPT !.step = "recorded", !.period = MeasPeriodOf(DurConfig)]

\* Read: the sleep of twice what calRemainingReadingMillis returns
DurWait ==
  /\ dur.step = "recorded"
  /\ \E now \in ClockValues, elapsed \in ElapsedValues :
       LET remaining ==
             calRemainingReadingMillis(now, dur.period, now + elapsed)
       IN dur' = [dur EXCEPT !.step = "waited",
                             !.slept = IF remaining > 0 THEN remaining * 2
                                       ELSE 0]

NextDur ==
  /\ \/ DurRecord
     \/ DurWait
  /\ UNCHANGED <<driverVars, spiVars, bus>>

SpecDur == InitDur /\ [][NextDur]_vars

(* ------------------------------------------------------------------ *)
(* Specification of the gas-wait byte: calcGasWait applied to every    *)
(* heater duration a uint16 holds, and to what the byte stands for     *)
(* ------------------------------------------------------------------ *)
HeatrDurValues == 0 .. 65535

\* the duration a gas-wait byte stands for on the sensor: the low six bits
\* times four to the power of the two high bits
GasWaitMillis(b) == (b % 64) * Pow2(2 * (b \div 64))

\* the Config whose gas-wait byte is computed
GasWaitConfig(d) == [DefaultConfig EXCEPT !.HeatrDur = d]

InitGw ==
  /\ InitDriver
  /\ spi = SpiIdle /\ spiDev = SpiDevIdle /\ spiTx = NoSpiTx
  /\ bus = BusIdle
  /\ \E d \in HeatrDurValues :
       dur = [HeatrDur |-> d, step |-> "start", gw |-> 0, millis |-> 0,
              again |-> 0]

\* applyHeatrConfig: gwRegData[0] = d.calcGasWait()
GwEncode ==
  /\ dur.step = "start"
  /\ dur' = [dur EXCEPT !.step = "encoded",
                        !.gw = calcGasWait(GasWaitConfig(dur.HeatrDur))]

\* the byte read as a duration, and calcGasWait applied to that duration
GwAgain ==
  /\ dur.step = "encoded"
  /\ LET ms == GasWaitMillis(dur.gw)
     IN dur' = [dur EXCEPT !.step = "again", !.millis = ms,
                           !.again = calcGasWait(GasWaitConfig(ms))]

NextGw ==
  /\ \/ GwEncode
     \/ GwAgain
  /\ UNCHANGED <<driverVars, spiVars, bus>>

SpecGw == InitGw /\ [][NextGw]_vars

(* ------------------------------------------------------------------ *)
(* Specification of the humidity coefficients h1 and h2: the decode of *)
(* readCalibrationData applied to buffers that differ in data[23],     *)
(* data[24] and data[25]                                               *)
(* ------------------------------------------------------------------ *)
\* the bytes <<data[23], data[24], data[25]>>: every pair of data[24] with
\* data[23] and with data[25], the third byte equal to the other or its
\* complement
CalByteTriples ==
  {<<x, b, IF same THEN x ELSE 255 - x>> :
     x \in 0 .. 255, b \in 0 .. 255, same \in BOOLEAN}

\* readCalibrationData's buffer after its three reads
CalBuffer(t) ==
  [k \in 1 .. 42 |-> IF k = 24 THEN t[1] ELSE IF k = 25 THEN t[2]
                      ELSE IF k = 26 THEN t[3] ELSE DevCalRom[k]]

InitCal ==
  /\ pc = "idle" /\ stack = <<>> /\ op = "none" /\ result = "none"
  /\ loc = ZeroLoc
  /\ cfg = DefaultConfig
  /\ ident = [chipID |-> CHIP_ID, VariantID |-> 0]
  /\ timing = [measStart |-> 0, measPeriod |-> 0]
  /\ meas = ZeroMeas
  /\ calib = ZeroCalib
  /\ lastTx = NoTx
  /\ hist = ZeroHist
  /\ env = [calls |-> MaxCalls, faults |-> MaxFaults]
  /\ dev = [regs |-> [r \in DevRegs |-> 0], lag |-> 0]
  /\ spi = SpiIdle /\ spiDev = SpiDevIdle /\ spiTx = NoSpiTx
  /\ bus = BusIdle
  /\ \E t \in CalByteTriples : dur = [step |-> "read", b |-> t]

\* readCalibrationData: the assignments after the third read
CalDecode ==
  /\ dur.step = "read"
  /\ dur' = [dur EXCEPT !.step = "decoded"]
  /\ calib' = DecodeCalib(CalBuffer(dur.b))
  /\ UNCHANGED <<pc, stack, op, result, loc, cfg, ident, timing, meas, dev,
                 lastTx, hist, env, spiVars, bus>>

NextCal == CalDecode

SpecCal == InitCal /\ [][NextCal]_vars

(* ------------------------------------------------------------------ *)
(* Specification of the altitude helper. Pressures are written in      *)
(* hundredths of the unit of the float32 argument (1013.25 is 101325); *)
(* the result is kept as the exact ratio handed to math.Pow            *)
(* ------------------------------------------------------------------ *)
\* CalcAltitude without the division of the pressure by 100
CalcAltitudeSameUnit(seaLevel, pressure) ==
  [fn |-> "altitude", num |-> pressure, den |-> seaLevel]

\* CalcAltitude: atmospheric := pressure / 100, and
\* 44330.0 * (1.0 - math.Pow(float64(atmospheric/seaLevel), 0.1903));
\* num/den is atmospheric/seaLevel
CalcAltitude(seaLevel, pressure) ==
  [fn |-> "altitude", num |-> pressure, den |-> 100 * seaLevel]

\* x^0.1903 is 1 at x = 1 only, below 1 for x < 1 and above for x > 1 (and
\* 0 at x = 0, where the altitude is 44330): the sign of the altitude
AltitudeSign(a) ==
  IF a.num = a.den THEN 0 ELSE IF a.num < a.den THEN 1 ELSE -1

\* sea-level pressures around the standard 1013.25, and for each the same
\* number, a hundred times the number, and 0 as the measured pressure
AltSeaLevels == {95000, 100000, 101325, 105000}
AltPressures ==
  {0} \cup AltSeaLevels \cup {100 * v : v \in AltSeaLevels}

InitAlt ==
  /\ InitDriver
  /\ spi = SpiIdle /\ spiDev = SpiDevIdle /\ spiTx = NoSpiTx
  /\ bus = BusIdle
  /\ \E sl \in AltSeaLevels, pr \in AltPressures :
       dur = [seaLevel |-> sl, pressure |-> pr, step |-> "start",
              altitude |-> ZeroVal]

\* main: bme68x.CalcAltitude(seaLevelPressurehPa, tsensor.Pressure)
AltCall ==
  /\ dur.step = "start"
  /\ dur' = [dur EXCEPT !.step = "altitude",
                        !.altitude = CalcAltitude(dur.seaLevel, dur.pressure)]

NextAlt ==
  /\ \/ AltCall
  /\ UNCHANGED <<driverVars, spiVars, bus>>

SpecAlt == InitAlt /\ [][NextAlt]_vars

(* ------------------------------------------------------------------ *)
(* Specification of the paged transport                               *)
(* ------------------------------------------------------------------ *)
\* the page bit and the other bits of the page register on the sensor the
\* transport first meets
SpiDevStartPages == {MEM_PAGE1, MEM_PAGE0}
SpiStatusFills == {0, 239}

InitSpi ==
  /\ InitDriver
  /\ dur = NoDur
  /\ spi = SpiIdle /\ spiTx = NoSpiTx
  /\ bus = [BusIdle EXCEPT !.kind = "spi"]
  /\ \E page \in SpiDevStartPages, st \in SpiStatusFills :
       spiDev = [SpiDevIdle EXCEPT !.page = page, !.st = st]

NextSpi ==
  /\ \/ \E reg \in SpiReadRegs : SpiRead(reg)
     \/ \E a \in SpiWriteArgs : SpiWrite(a[1], a[2])
     \/ SpiReset
     \/ SpiSetMemoryPage
     \/ SpiPageRead
     \/ SpiPageWriteBack
     \/ SpiDataRead
     \/ SpiWriteNext
     \/ SpiWriteTx
     \/ SpiResetPage1
     \/ SpiResetPage2
  /\ UNCHANGED <<driverVars, dur, bus>>

SpecSpi == InitSpi /\ [][NextSpi]_vars

(* ------------------------------------------------------------------ *)
(* Specification of the two transports called directly                *)
(* ------------------------------------------------------------------ *)
InitBus ==
  /\ InitDriver
  /\ dur = NoDur
  /\ spi = SpiIdle /\ spiTx = NoSpiTx
  /\ \/ /\ bus = BusIdle
        /\ spiDev = SpiDevIdle
     \/ /\ bus = [BusIdle EXCEPT !.kind = "spi"]
        /\ \E page \in SpiDevStartPages, st \in SpiStatusFills :
             spiDev = [SpiDevIdle EXCEPT !.page = page, !.st = st]

NextBus ==
  \/ /\ \/ \E a \in I2cReadArgs : I2cRead(a[1], a[2])
        \/ \E a \in BusWriteArgs : I2cWrite(a[1], a[2])
        \/ I2cReset
     /\ UNCHANGED <<pc, stack, op, result, loc, cfg, ident, timing, meas, hist,
                    calib, spiVars, dur>>
  \/ /\ bus.kind = "spi"
     /\ \/ \E reg \in SpiReadRegs : SpiRead(reg)
        \/ \E a \in BusWriteArgs : SpiWrite(a[1], a[2])
        \/ SpiReset
        \/ SpiSetMemoryPage
        \/ SpiPageRead
        \/ SpiPageWriteBack
        \/ SpiDataRead
        \/ SpiWriteNext
        \/ SpiWriteTx
        \/ SpiResetPage1
        \/ SpiResetPage2
     /\ UNCHANGED <<driverVars, dur, bus>>

SpecBus == InitBus /\ [][NextBus]_vars

(* ------------------------------------------------------------------ *)
(* Specification of construction followed by first use                *)
(* ------------------------------------------------------------------ *)
InitNew ==
  /\ pc = "new" /\ stack = <<>> /\ op = "none" /\ result = "none"
  /\ loc = ZeroLoc
  /\ cfg = NewDevice.config
  /\ ident = [chipID |-> 0, VariantID |-> 0]
  /\ timing = [measStart |-> 0, measPeriod |-> 0]
  /\ meas = ZeroMeas
  /\ calib = ZeroCalib
  /\ lastTx = NewDevice.tx
  /\ hist = ZeroHist
  /\ env = [calls |-> MaxCalls, faults |-> MaxFaults]
  /\ \E fill \in Fills, m \in DevStartModes :
       dev = [regs |-> [r \in DevRegs |->
                          IF r = REG_CTRL_MEAS THEN AndNot(fill, MODE_MSK) + m
                          ELSE fill],
              lag |-> 0]
  /\ dur = NoDur
  /\ spi = SpiIdle /\ spiTx = NoSpiTx
  /\ LET b == [BusIdle EXCEPT !.address = NewDevice.address,
                              !.PeriodPoll = NewDevice.PeriodPoll]
     IN \/ /\ bus = b
           /\ spiDev = SpiDevIdle
        \/ /\ bus = [b EXCEPT !.kind = "spi"]
           /\ \E page \in SpiDevStartPages, st \in SpiStatusFills :
                spiDev = [SpiDevIdle EXCEPT !.page = page, !.st = st]

NextNew ==
  \/ NewOption
  \/ NewReturn
  \/ /\ bus.kind = "i2c"
     /\ \/ Connected
        \/ ConnectedRead
        \/ Mode
        \/ ModeRead
     /\ UNCHANGED <<spiVars, dur, bus>>
  \/ /\ bus.kind = "spi" /\ pc = "idle"
     /\ \/ \E reg \in SpiReadRegs : SpiRead(reg)
        \/ SpiSetMemoryPage
        \/ SpiPageRead
        \/ SpiPageWriteBack
        \/ SpiDataRead
     /\ UNCHANGED <<driverVars, dur, bus>>

SpecNew == InitNew /\ [][NextNew]_vars

(* ------------------------------------------------------------------ *)
(* Specification of the constructor's option loop alone, with the      *)
(* options kept in the order they ran                                  *)
(* ------------------------------------------------------------------ *)
InitOpt ==
  /\ pc = "new" /\ stack = <<>> /\ op = "none" /\ result = "none"
  /\ loc = ZeroLoc
  /\ cfg = NewDevice.config
  /\ ident = [chipID |-> 0, VariantID |-> 0]
  /\ timing = [measStart |-> 0, measPeriod |-> 0]
  /\ meas = ZeroMeas
  /\ calib = ZeroCalib
  /\ lastTx = NewDevice.tx
  /\ hist = ZeroHist
  /\ env = [calls |-> MaxCalls, faults |-> MaxFaults]
  /\ \E fill \in Fills :
       dev = [regs |-> [r \in DevRegs |-> fill], lag |-> 0]
  /\ dur = NoDur
  /\ spi = SpiIdle /\ spiDev = SpiDevIdle /\ spiTx = NoSpiTx
  /\ \E k \in {"i2c", "spi"} :
       bus = [BusIdle EXCEPT !.kind = k, !.address = NewDevice.address,
                             !.PeriodPoll = NewDevice.PeriodPoll,
                             !.use = "new"]

NextOpt ==
  \/ NewOrderOption
  \/ NewReturn

SpecOpt == InitOpt /\ [][NextOpt]_vars

(* ------------------------------------------------------------------ *)
(* Specification of every public operation, on either transport       *)
(* ------------------------------------------------------------------ *)
\* the operations that store a value in Config and apply it
SetterOps == {"SetTemperatureOversampling", "SetPressureOversampling",
              "SetHumidityOversampling", "SetIIRFilter", "SetODR",
              "SetGasHeater"}

\* the public operations of Device
PublicOps ==
  {"Connected", "Reset", "Configure", "Mode", "SetMode",
   "SetTemperatureOversampling", "SetPressureOversampling",
   "SetHumidityOversampling", "SetIIRFilter", "SetODR", "SetGasHeater",
   "Read"}

\* the driver's operations run over the addressed transport, where a call of
\* the transport is one transaction; the paged transport's calls are followed
\* transaction by transaction. A behaviour calls one public operation,
\* bus.use, as often as the call budget allows.
InitOps ==
  /\ InitDriver
  /\ dur = NoDur
  /\ spi = SpiIdle /\ spiTx = NoSpiTx
  /\ \/ /\ \E name \in PublicOps :
            bus = [BusIdle EXCEPT !.kind = "i2c", !.use = name]
        /\ spiDev = SpiDevIdle
     \/ /\ bus = [BusIdle EXCEPT !.kind = "spi"]
        /\ \E page \in SpiDevStartPages, st \in SpiStatusFills :
             spiDev = [SpiDevIdle EXCEPT !.page = page, !.st = st]

NextOps ==
  \/ /\ bus.kind = "i2c"
     /\ \/ NextCfg
        \/ NextRead
     /\ op' = bus.use
  \/ /\ bus.kind = "spi"
     /\ NextSpi

SpecOps == InitOps /\ [][NextOps]_vars

(* ------------------------------------------------------------------ *)
(* Specification of the setters on a configured Device                *)
(* ------------------------------------------------------------------ *)
\* what the sensor's registers hold before the first call
SetFills == {0, 255}

\* SetGasHeater's arguments: target temperature, duration, enable
GasHeaterArgs ==
  {<<t, d, e>> : t \in {0, TargetTemperature}, d \in {0, TargetHeatrDuration},
                 e \in BOOLEAN}

InitSet ==
  /\ pc = "idle" /\ stack = <<>> /\ op = "none" /\ result = "none"
  /\ loc = ZeroLoc
  /\ cfg = DefaultConfig
  /\ \E c \in ConfiguredIdents :
       /\ ident = [chipID |-> c[1], VariantID |-> c[2]]
       /\ calib = c[3]
  /\ timing = [measStart |-> 0, measPeriod |-> 0]
  /\ meas = ZeroMeas
  /\ lastTx = NoTx
  /\ hist = ZeroHist
  /\ env = [calls |-> MaxCalls, faults |-> MaxFaults]
  /\ \E fill \in SetFills, m \in DevStartModes :
       dev = [regs |-> [r \in DevRegs |->
                          IF r = REG_CTRL_MEAS THEN AndNot(fill, MODE_MSK) + m
                          ELSE fill],
              lag |-> 0]
  /\ spi = SpiIdle /\ spiDev = SpiDevIdle /\ spiTx = NoSpiTx
  /\ \E name \in SetterOps : bus = [BusIdle EXCEPT !.use = name]
  /\ dur = NoDur

\* a behaviour calls one setter, bus.use, as often as the call budget allows
NextSet ==
  /\ \/ \E os \in OsArgs : SetTemperatureOversampling(os)
     \/ \E os \in OsArgs : SetPressureOversampling(os)
     \/ \E os \in OsArgs : SetHumidityOversampling(os)
     \/ \E fc \in IIRArgs : SetIIRFilter(fc)
     \/ \E odr \in ODRArgs : SetODR(odr)
     \/ \E h \in GasHeaterArgs : SetGasHeater(h[1], h[2], h[3])
     \/ SetModeRead
     \/ SetModeClear
     \/ SetModeTarget
     \/ ApplyConfigMode
     \/ ApplyConfigReadWindow
     \/ ApplyConfigWriteWindow
     \/ HeatrWriteRes
     \/ HeatrWriteGasWait
     \/ ApplyGasReadCtrl
     \/ ApplyGasWriteCtrl
  /\ op' = bus.use
  /\ UNCHANGED <<spiVars, dur, bus>>

SpecSet == InitSet /\ [][NextSet]_vars

(* ------------------------------------------------------------------ *)
(* Specification of SetODR on each of the output-data-rate levels      *)
(* ------------------------------------------------------------------ *)
\* ODR_0_59 .. ODR_20 and ODR_NONE
ODRLevels == 0 .. ODR_NONE

InitOdr ==
  InitReadOn(FlightIdents, {DefaultConfig}, SetFills, FlightModes, MaxCalls)

NextOdr ==
  /\ \/ \E odr \in ODRLevels : SetODR(odr)
     \/ SetModeRead
     \/ SetModeClear
     \/ SetModeTarget
     \/ ApplyConfigMode
     \/ ApplyConfigReadWindow
     \/ ApplyConfigWriteWindow
  /\ UNCHANGED <<spiVars, dur, bus>>

SpecOdr == InitOdr /\ [][NextOdr]_vars

(* ------------------------------------------------------------------ *)
(* Claims about the configuration operations (SpecCfg)                *)
(* ------------------------------------------------------------------ *)
\* the writes of configuration registers: the 0x71-0x75 window, res_heat_0,
\* gas_wait_0 and the ctrl_gas_0 / ctrl_gas_1 pair
ConfigWriteSites == {"ac_writewin", "ag_rh", "ag_gw", "ag_writectrl"}

\* C1: every write of a configuration register is issued when the driver's
\* most recent read of the mode register returned sleep and the driver has
\* written no mode other than sleep since that read.
C1_ConfigWriteOnlyInSleep ==
  lastTx.site \in ConfigWriteSites =>
    lastTx.preRead = ModeSleep /\ ~lastTx.preDirty

\* C1 witness: a configuration write that went through in a call that found
\* the sensor in forced mode
C1_Witness ==
  /\ lastTx.site \in ConfigWriteSites
  /\ lastTx.ok
  /\ hist.startMode = ModeForced

\* C2: when a setter that found the sensor in mode m other than sleep returns
\* success, the last mode the driver wrote to the mode register is m.
C2_SetterRestoresMode ==
  (pc = "idle" /\ result = "ok" /\ op \in SetterOps
     /\ hist.startMode # ModeSleep)
    => hist.lastModeWritten = hist.startMode

\* C3: in SetMode a mode other than sleep is written only after a read of the
\* same call returned sleep; a write before that read carries the byte last
\* read with the power-mode field cleared.
C3_TargetWriteAfterSleepRead ==
  (lastTx.kind = "write" /\ lastTx.site \in {"sm_clear", "sm_target"}) =>
    /\ And(lastTx.w[2], MODE_MSK) # ModeSleep => lastTx.preSaw
    /\ ~lastTx.preSaw => lastTx.w[2] = AndNot(hist.lastRaw, MODE_MSK)

\* C3 witness: SetMode has written a target mode to a sensor it found awake
C3_Witness ==
  /\ op = "SetMode"
  /\ lastTx.site = "sm_target" /\ lastTx.ok
  /\ And(lastTx.w[2], MODE_MSK) = ModeForced
  /\ hist.startMode # ModeSleep

\* C4: SetMode leaves its loop only on a read that shows sleep, it goes round
\* again on every other read, and on leaving after k clearing writes it has
\* read the mode register k + 1 times.
C4_LoopEndsOnlyOnSleep ==
  /\ pc = "sm_target" =>
       loc.powerMode = ModeSleep /\ loc.nReads = loc.nClears + 1
  /\ pc = "sm_clear" =>
       loc.powerMode # ModeSleep /\ loc.nReads = loc.nClears + 1
  /\ pc = "sm_read" => loc.nReads = loc.nClears
  /\ (pc = "idle" /\ op = "SetMode" /\ result = "ok") =>
       hist.lastModeRead = ModeSleep

\* C4 witness: the loop is left after two clearing writes and three reads
C4_Witness ==
  pc = "sm_target" /\ loc.nClears = 2 /\ loc.nReads = 3

(* ------------------------------------------------------------------ *)
(* Claims about the measurement cycle (SpecRead)                      *)
(* ------------------------------------------------------------------ *)
\* a Read has returned and no status window of the call had new data
ReadReturnedWithoutNewData ==
  pc = "idle" /\ op = "Read" /\ result # "none" /\ ~hist.newData

\* the Measurement fields readData assigns only inside its new-data branch
DerivedFields == {"ResHeat", "Idac", "GasWait", "TemperatureFine",
                  "Temperature", "Pressure", "Humidity", "GasResistance"}

C6_AllFieldsUnchanged ==
  ReadReturnedWithoutNewData => meas = hist.measBefore

\* C6 amended: a Read that never saw new data leaves ResHeat, Idac, GasWait,
\* TemperatureFine, Temperature, Pressure, Humidity and GasResistance at the
\* values they had before the call; Status, GasIndex and MeasIndex hold what
\* the last window read by the call reported.
C6_DerivedFieldsUnchanged ==
  ReadReturnedWithoutNewData =>
    /\ \A f \in DerivedFields : meas[f] = hist.measBefore[f]
    /\ hist.lastWin # <<>> =>
         /\ meas.Status = DecodeWindow(hist.lastWin, ident.VariantID).Status
         /\ meas.GasIndex = And(hist.lastWin[1], GAS_INDEX_MSK)
         /\ meas.MeasIndex = hist.lastWin[2]
    /\ hist.lastWin = <<>> => meas = hist.measBefore

\* C6 witness: a Read without new data has returned success on a Device that
\* holds the results of an earlier Read, and its status fields have changed
C6_Witness ==
  /\ ReadReturnedWithoutNewData /\ result = "ok"
  /\ hist.measBefore.Temperature # ZeroVal
  /\ hist.measBefore.GasResistance # ZeroVal
  /\ meas.GasIndex # hist.measBefore.GasIndex

\* C7 as stated: after a Read that got new data, GasResistance is other than
\* zero only if the heat-stable flag and the gas-valid flag are both set in
\* the status; with either flag clear it is zero.
C7_GasOnlyWhenBothFlags ==
  (pc = "idle" /\ op = "Read" /\ result = "ok" /\ hist.newData) =>
    (meas.GasResistance # ZeroVal <=>
       /\ And(meas.Status, HEAT_STAB_MSK) # 0
       /\ And(meas.Status, GASM_VALID_MSK) # 0)

(* ------------------------------------------------------------------ *)
(* Claims about the measurement period (SpecDur)                      *)
(* ------------------------------------------------------------------ *)
\* C8 as stated: for every Config the period Read records is floor(D/1000)
\* milliseconds, D the conversion duration in microseconds, and the wait of
\* twice the remaining period is not shorter than the conversion duration.
C8_PeriodIsDurationInMs ==
  /\ dur.step \in {"recorded", "waited"} =>
       dur.period = DelayusPeriod(DurConfig) \div 1000
  /\ dur.step = "waited" =>
       dur.slept * 1000 >= DelayusPeriod(DurConfig)

(* ------------------------------------------------------------------ *)
(* Claims about the paged transport (SpecSpi)                         *)
(* ------------------------------------------------------------------ *)
\* C9 as stated: when a register data transaction is issued, the sensor's
\* page-select bit is the page of the target register.
C9_PageBitMatchesAtData ==
  spiTx.kind = "data" => spiTx.devPage = spiTx.need

\* C10 as stated: when setMemoryPage has returned for an access that follows
\* another, the sensor has taken exactly one write of the page register if
\* the two registers are on opposite sides of 0x7F, and none otherwise.
C10_OneSwitchWritePerCrossing ==
  (spi.set.done /\ spi.set.prev # -1) =>
    spiDev.pageWrites - spi.set.w0 =
      IF PageOf(spi.set.reg) # PageOf(spi.set.prev) THEN 1 ELSE 0

\* C11 as stated: a transaction that reads a register has bit 7 of its
\* register byte set; a transaction that writes a register, the write-back of
\* the page register included, has bit 7 of the register byte clear and the
\* value as the next outgoing byte.
C11_Bit7ReadSetWriteClear ==
  /\ spiTx.site \in PageReadSites \cup {"sp_read"} => Bit(spiTx.w[1], 7) = 1
  /\ spiTx.site = "sp_wtx" =>
       /\ Bit(spiTx.w[1], 7) = 0
       /\ spiTx.w[2] = spi.data[1]
  /\ spiTx.site = "sp_pgwrite" =>
       /\ Bit(spiTx.w[1], 7) = 0
       /\ Len(spiTx.w) >= 2
       /\ spiTx.w[2] = spi.d0

\* C12 as stated: a successful Reset has read the page register once before
\* the reset command and once after it, and its cache holds the page bit the
\* sensor reported after the reset.
C12_ResetReadsPageOnceEachSide ==
  (spi.pc = "idle" /\ spi.op = "Reset" /\ spi.result = "ok") =>
    /\ spi.io.atCmd = 1
    /\ spi.io.pageReads - spi.io.atCmd = 1
    /\ spi.memoryPage = spiDev.page

\* C12 amended: a successful Reset has read the page register before the
\* reset command once in readMemoryPage and once more when setMemoryPage
\* went to switch the page for the reset register, exactly once after the
\* command, and its cache holds the page bit the sensor reported after the
\* reset, whatever the cache and the sensor's bit were before.
C12_ResetResyncsPage ==
  (spi.pc = "idle" /\ spi.op = "Reset" /\ spi.result = "ok") =>
    /\ spi.io.atCmd = 1 + spi.set.wb
    /\ spi.set.wb \in {0, 1}
    /\ spi.io.pageReads - spi.io.atCmd = 1
    /\ spiTx.site = "sp_rp2"
    /\ spi.memoryPage = spiTx.devPage
    /\ spi.memoryPage = spiDev.page

\* C12 witness: a Reset has returned success on a transport whose cache
\* differed from the sensor's page bit before the call
C12_Witness ==
  /\ spi.pc = "idle" /\ spi.op = "Reset" /\ spi.result = "ok"
  /\ spi.io.cache0 # spi.memoryPage
  /\ spi.io.atCmd = 2

(* ------------------------------------------------------------------ *)
(* Claims about the transports called directly (SpecBus)              *)
(* ------------------------------------------------------------------ *)
\* C13: on either transport a Write with no data byte or with more than ten
\* returns success and has issued no bus transaction; on the paged transport
\* it has also entered no page switch and left the cached page as it was.
C13_WriteOutsideCapacityIsNoOp ==
  /\ (bus.op = "Write" /\ (Len(bus.data) = 0
                           \/ Len(bus.data) > LEN_INTERLEAVE_BUFF \div 2)) =>
       bus.result = "ok" /\ bus.txs = 0 /\ lastTx = NoTx
  /\ (spi.op = "Write" /\ (Len(spi.data) = 0
                           \/ Len(spi.data) > LEN_INTERLEAVE_BUFF \div 2)) =>
       /\ spi.pc = "idle" /\ spi.result = "ok"
       /\ spi.io.txs = 0
       /\ spi.set = NoSet
       /\ spi.memoryPage = spi.io.cache0

\* C13 witness: the addressed transport has returned from a Write of eleven
\* pairs
C13_Witness ==
  /\ bus.op = "Write" /\ Len(bus.data) = LEN_INTERLEAVE_BUFF \div 2 + 1
  /\ bus.result = "ok"

\* C14: for 1 to 10 pairs the addressed transport's Write has issued exactly
\* one transaction, whose outgoing bytes 2i and 2i+1 are reg[i] and data[i];
\* its Read has issued exactly one transaction, the register byte out and as
\* many bytes in as the buffer is long.
C14_OneTransactionInterleaved ==
  /\ (bus.op = "Write" /\ Len(bus.data) >= 1
        /\ Len(bus.data) <= LEN_INTERLEAVE_BUFF \div 2) =>
       /\ bus.txs = 1
       /\ lastTx.kind = "write"
       /\ \A i \in 0 .. Len(bus.data) - 1 :
            /\ lastTx.w[2 * i + 1] = bus.regs[i + 1]
            /\ lastTx.w[2 * i + 2] = bus.data[i + 1]
  /\ bus.op = "Read" =>
       /\ bus.txs = 1
       /\ lastTx.kind = "read"
       /\ lastTx.w = bus.regs
       /\ lastTx.rlen = bus.rlen
       /\ bus.result = "ok" => Len(bus.got) = bus.rlen

\* C14 witness: a Write of ten pairs has gone out in one transaction
C14_Witness ==
  /\ bus.op = "Write" /\ Len(bus.data) = LEN_INTERLEAVE_BUFF \div 2
  /\ bus.result = "ok" /\ bus.txs = 1

(* ------------------------------------------------------------------ *)
(* Claims about construction (SpecNew)                                *)
(* ------------------------------------------------------------------ *)
\* C15: constructing a Device, whatever the options, issues no bus
\* transaction: as long as no operation has been called nothing has gone out
\* on either transport, and during construction no operation has begun and
\* no bus fault has been met.
C15_ConstructionIsSilent ==
  /\ op = "none" => lastTx = NoTx
  /\ spi.op = "none" => spiTx = NoSpiTx /\ spi.io.txs = 0
  /\ pc = "new" =>
       /\ op = "none" /\ spi.op = "none"
       /\ env = [calls |-> MaxCalls, faults |-> MaxFaults]

\* C15 witness: a Device built with two options, no operation called yet
C15_Witness ==
  /\ pc = "idle" /\ op = "none" /\ spi.op = "none"
  /\ cfg.mode = ModeSleep /\ bus.address # Address
  /\ lastTx = NoTx

(* ------------------------------------------------------------------ *)
(* Claims about failures of Configure and of the bus (SpecCfg)        *)
(* ------------------------------------------------------------------ *)
\* the transactions of the finished call that read the chip id
ChipIdReads ==
  {k \in 1 .. Len(lastTx.log) : lastTx.log[k].site \in {"cn_read", "cf_chipid"}}

\* C16 as stated: when a chip-id read of Configure has failed or returned a
\* value other than CHIP_ID, Configure has returned an error after exactly one
\* chip-id read and without the reset command, a calibration read or a write.
C16_ChipIdFailureStopsAtOnce ==
  (pc = "idle" /\ op = "Configure"
     /\ \E k \in ChipIdReads :
          ~lastTx.log[k].ok \/ lastTx.log[k].v # CHIP_ID) =>
    /\ result = "err"
    /\ Cardinality(ChipIdReads) = 1
    /\ \A k \in 1 .. Len(lastTx.log) :
         /\ lastTx.log[k].site \notin {"rs_write", "cf_cal1", "cf_cal2", "cf_cal3"}
         /\ lastTx.log[k].kind # "write"

\* C16 amended: Configure's first transaction is the chip-id read of the
\* connection check; when that read has failed or returned a value other than
\* CHIP_ID, Configure has returned an error and that read is its only
\* transaction. The chip-id read after the reset is the third transaction:
\* when it has failed, Configure has returned an error after two chip-id
\* reads and the reset command and nothing else; its value is not compared.
C16_ConnectFailureStopsAtOnce ==
  (pc = "idle" /\ op = "Configure") =>
    LET log == lastTx.log IN
    /\ Len(log) >= 1 /\ log[1].site = "cn_read"
    /\ (~log[1].ok \/ log[1].v # CHIP_ID) => result = "err" /\ Len(log) = 1
    /\ \A k \in 2 .. Len(log) :
         log[k].site = "cf_chipid" =>
           /\ k = 3 /\ log[2].site = "rs_write" /\ log[2].ok
           /\ ~log[k].ok => result = "err" /\ Len(log) = 3
           /\ (log[k].ok /\ log[k].v # CHIP_ID /\ Len(log) = 4) =>
                log[4].site = "cf_variant"

\* C16 witness: Configure has returned an error because the connection check
\* read a chip id other than CHIP_ID
C16_Witness ==
  /\ pc = "idle" /\ op = "Configure" /\ result = "err"
  /\ Len(lastTx.log) = 1 /\ lastTx.log[1].ok /\ lastTx.log[1].v # CHIP_ID

\* C17: in every public operation, on either transport, a failed bus
\* transaction is the last one of the call: the operation has returned an
\* error, the failed transaction has not been issued again and none has
\* followed it. On the paged transport the same holds inside a call of the
\* transport, whose error is the failed call the driver sees.
C17_FailureEndsTheOperation ==
  /\ \A k \in 1 .. Len(lastTx.log) :
       ~lastTx.log[k].ok =>
         /\ k = Len(lastTx.log)
         /\ pc = "idle" /\ result = "err"
         /\ op \in PublicOps
  /\ spi.io.failed =>
       /\ spi.io.afterFail = 0
       /\ spi.pc = "idle" /\ spi.result = "err"

\* C17 witness: SetMode has returned an error from a read of its
\* sleep-confirmation loop that followed a write of the sleep mode
C17_Witness ==
  /\ op = "SetMode" /\ pc = "idle" /\ result = "err"
  /\ Len(lastTx.log) >= 3
  /\ lastTx.log[Len(lastTx.log)].site = "sm_read"
  /\ ~lastTx.log[Len(lastTx.log)].ok
  /\ lastTx.log[Len(lastTx.log) - 1].kind = "write"

\* the messages of Configure's errors, in the order of its phases: connect,
\* reset, chip-id read, variant-id read, calibration read, apply-config,
\* apply-gas-config
ConfigurePhases ==
  <<"device not found or not connected", "failed to reset device",
    "failed to read chip ID", "failed to read variant ID",
    "failed to read calibration data", "failed to apply config",
    "failed to apply gas config">>

\* the transactions a phase of Configure issues
PhaseSites(n) ==
  CASE n = 1 -> {"cn_read"}
    [] n = 2 -> {"rs_write"}
    [] n = 3 -> {"cf_chipid"}
    [] n = 4 -> {"cf_variant"}
    [] n = 5 -> {"cf_cal1", "cf_cal2", "cf_cal3"}
    [] n = 6 -> {"ac_mode", "sm_read", "sm_clear", "sm_target", "ac_readwin",
                 "ac_writewin"}
    [] n = 7 -> {"sm_read", "sm_clear", "ag_rh", "ag_gw", "ag_readctrl",
                 "ag_writectrl"}

\* the transaction whose success shows that a phase got to its end
PhaseDone(n) ==
  CASE n = 1 -> "cn_read"
    [] n = 2 -> "rs_write"
    [] n = 3 -> "cf_chipid"
    [] n = 4 -> "cf_variant"
    [] n = 5 -> "cf_cal3"
    [] n = 6 -> "ac_writewin"

\* by its transactions, applyConfig of the finished call has returned: its
\* window write succeeded and the mode it found was sleep, or the write of
\* the mode it restores succeeded after the window write
ApplyConfigReturned(log) ==
  \E j \in 1 .. Len(log) :
    /\ log[j].site = "ac_writewin" /\ log[j].ok
    /\ \/ \E i \in 1 .. j : /\ log[i].site = "ac_mode"
                            /\ And(log[i].v, MODE_MSK) = ModeSleep
       \/ \E k \in j + 1 .. Len(log) : log[k].site = "sm_target" /\ log[k].ok

\* C18: when Configure has failed, its error names one of the seven phases;
\* the last transaction belongs to that phase, every earlier phase got to its
\* end, and no transaction of a later phase was issued. When a setter has
\* failed its error names apply-config, and apply-gas-config for SetGasHeater.
C18_ErrorNamesFirstFailingPhase ==
  /\ (pc = "idle" /\ op = "Configure" /\ result = "err") =>
       LET log == lastTx.log IN
       \E n \in 1 .. 7 :
         /\ loc.err = ConfigurePhases[n]
         /\ Len(log) >= 1 /\ log[Len(log)].site \in PhaseSites(n)
         /\ \A m \in 1 .. n - 1 :
              \E k \in 1 .. Len(log) : log[k].site = PhaseDone(m) /\ log[k].ok
         /\ \A k \in 1 .. Len(log) :
              \E m \in 1 .. n : log[k].site \in PhaseSites(m)
         /\ n = 6 => ~ApplyConfigReturned(log)
         /\ n = 7 => ApplyConfigReturned(log)
  /\ (pc = "idle" /\ result = "err" /\ op \in SetterOps) =>
       loc.err = IF op = "SetGasHeater" THEN "failed to apply gas config"
                 ELSE "failed to apply config"

\* C18 witness: Configure has failed in applyConfig, after the window write,
\* while restoring the mode
C18_Witness ==
  /\ pc = "idle" /\ op = "Configure" /\ result = "err"
  /\ loc.err = "failed to apply config"
  /\ \E k \in 1 .. Len(lastTx.log) : lastTx.log[k].site = "ac_writewin"

(* ------------------------------------------------------------------ *)
(* Claims about the setters on a configured Device (SpecSet)          *)
(* ------------------------------------------------------------------ *)
\* the setters that run applyConfig
ApplyConfigOps == SetterOps \ {"SetGasHeater"}

\* the call that has returned ran, with the Config as the call before left
\* it, the routine the call before ran, and both succeeded
RanTwice ==
  /\ pc = "idle" /\ result = "ok" /\ hist.prev.result = "ok"
  /\ \/ op \in ApplyConfigOps /\ hist.prev.op \in ApplyConfigOps
     \/ op = "SetGasHeater" /\ hist.prev.op = "SetGasHeater"
  /\ hist.prev.cfgIn = hist.prev.cfg

\* C19: applyConfig and applyGasConfig are idempotent given unchanged Config:
\* a second run right after a successful one leaves the sensor's registers and
\* the Config as the first run left them, whatever the registers and the
\* power mode were before. The sensor is taken as the registers it holds: it
\* has the mode last written to it when each run ends.
C19_ApplyTwiceIsApplyOnce ==
  (RanTwice /\ hist.prev.lag = 0 /\ dev.lag = 0) =>
    dev.regs = hist.prev.regs /\ cfg = hist.prev.cfg

\* C19 witness: applyConfig has run twice on a sensor found in forced mode,
\* restoring that mode each time
C19_Witness ==
  /\ RanTwice /\ hist.prev.lag = 0 /\ dev.lag = 0
  /\ op \in ApplyConfigOps
  /\ cfg.mode = ModeForced /\ DevMode(dev) = ModeForced
  /\ hist.startMode = ModeForced

\* C20: after a successful SetGasHeater(temp, dur, enable) the heater is
\* enabled in the control registers of the gas measurement (heater-off bit
\* clear, run-gas 2 on the high-range variant and 1 otherwise) exactly when
\* enable is true and temp and dur are not zero; otherwise the heater-off bit
\* is set and run-gas is 0. The profile index written is 0 in both cases.
C20_HeaterEnabledIffAllSet ==
  (pc = "idle" /\ op = "SetGasHeater" /\ result = "ok") =>
    LET arg == hist.prev.cfgIn
        on == arg.HeatrEnable /\ arg.HeatrTemp # 0 /\ arg.HeatrDur # 0
        ctrl0 == dev.regs[REG_CTRL_GAS_0]
        ctrl1 == dev.regs[REG_CTRL_GAS_1]
    IN /\ Bit(ctrl0, 3) = IF on THEN 0 ELSE 1
       /\ (ctrl1 \div 16) % 4 =
            IF ~on THEN 0
            ELSE IF ident.VariantID = VARIANT_GAS_HIGH THEN 2 ELSE 1
       /\ ctrl1 % 16 = 0

\* C20 witness: SetGasHeater has enabled the heater on a high-range sensor
\* whose control registers had every bit set
C20_Witness ==
  /\ pc = "idle" /\ op = "SetGasHeater" /\ result = "ok"
  /\ hist.prev.cfgIn.HeatrEnable /\ hist.prev.cfgIn.HeatrTemp # 0
  /\ hist.prev.cfgIn.HeatrDur # 0
  /\ ident.VariantID = VARIANT_GAS_HIGH
  /\ hist.prev.regs[REG_CTRL_GAS_1] = 255
  /\ dev.regs[REG_CTRL_GAS_1] = 224

(* ------------------------------------------------------------------ *)
(* Gas-wait encoding                                                   *)
(* ------------------------------------------------------------------ *)
\* the number of integer divisions by 4 that bring d to at most 63
GasWaitExponent(d) ==
  CHOOSE e \in 0 .. 8 :
    /\ d \div Pow2(2 * e) <= 63
    /\ \A k \in 0 .. e - 1 : d \div Pow2(2 * k) > 63

\* C21: for every heater duration d in 0..65535 ms the gas-wait byte is 0xFF
\* when d >= 0xFC0; otherwise it is m + 64*e, where e in 0..3 is the number
\* of integer divisions by 4 that bring d to at most 63 and m is the value
\* they leave, and m + 64*e is at most 255 (nothing is lost in the uint8)
C21_GasWaitEncoding ==
  dur.step \in {"encoded", "again"} =>
    IF dur.HeatrDur >= 4032 THEN dur.gw = 255
    ELSE LET e == GasWaitExponent(dur.HeatrDur)
             m == dur.HeatrDur \div Pow2(2 * e)
         IN /\ e \in 0 .. 3
            /\ m \in 0 .. 63
            /\ m + 64 * e <= 255
            /\ dur.gw = m + 64 * e

C21_Witness ==
  /\ dur.step = "encoded"
  /\ dur.HeatrDur = 4031
  /\ dur.gw = 62 + 64 * 3

\* C22: for every duration d in [0, 0xFC0) the gas-wait byte read back as
\* mantissa * 4^exponent is a duration within one quantization step
\* (4^exponent) of d, and encoding that duration gives the same byte again
C22_DecodeWithinOneStepAndStable ==
  (dur.step = "again" /\ dur.HeatrDur < 4032) =>
    LET step == Pow2(2 * (dur.gw \div 64))
    IN /\ dur.millis = (dur.gw % 64) * step
       /\ dur.millis <= dur.HeatrDur
       /\ dur.HeatrDur - dur.millis < step
       /\ dur.again = dur.gw

C22_Witness ==
  /\ dur.step = "again"
  /\ dur.HeatrDur = 4031
  /\ dur.millis = 3968
  /\ dur.again = dur.gw
  /\ dur.gw = 254

(* ------------------------------------------------------------------ *)
(* Read's in-flight guard and markers                                  *)
(* ------------------------------------------------------------------ *)
\* C23: a Read called while a measurement is in flight (measStart is not
\* zero) is a no-op: it issues no bus transaction, changes no field of the
\* Device (nor anything on the sensor), and returns success
C23_InFlightReadIsNoOp ==
  [][(hist'.guarded # hist.guarded /\ hist'.guarded # "none") =>
       /\ timing.measStart # 0
       /\ hist'.guarded = "ok"
       /\ UNCHANGED <<cfg, ident, timing, meas, calib, dev, lastTx, env>>]_vars

C23_Witness ==
  /\ pc = "rd_sleep"
  /\ hist.guarded = "ok"
  /\ timing.measStart # 0
  /\ timing.measPeriod = 51

\* C24: every Read that returns, on success, on an error and on the early
\* return, leaves measStart and measPeriod at zero: whenever no call is in
\* progress the markers are zero, so the guard lets the next Read through
C24_ReadReturnsWithMarkersZero ==
  pc = "idle" =>
    /\ timing.measStart = 0
    /\ timing.measPeriod = 0

\* the early return: a Read that succeeded without reading a status window
C24_Witness ==
  /\ pc = "idle" /\ op = "Read" /\ result = "ok"
  /\ MeasPeriodOf(cfg) = 0
  /\ lastTx.log # <<>>
  /\ \A k \in 1 .. Len(lastTx.log) : lastTx.log[k].site # "rd_poll"
  /\ timing = [measStart |-> 0, measPeriod |-> 0]

(* ------------------------------------------------------------------ *)
(* Altitude                                                            *)
(* ------------------------------------------------------------------ *)
\* C25: CalcAltitude(1013.25, 1013.25) is 0.0 with both arguments in hPa:
\* the altitude is zero exactly when the measured pressure argument equals
\* the sea-level pressure argument
C25_AltitudeZeroAtEqualArguments ==
  dur.step = "altitude" =>
    (AltitudeSign(dur.altitude) = 0 <=> dur.pressure = dur.seaLevel)

\* C25 amended: CalcAltitude(1013.25, 101325) is 0.0, with the sea-level
\* pressure in hPa and the measured pressure in Pa: the altitude is zero
\* exactly when the measured pressure argument is 100 times the sea-level
\* pressure argument
C25_AltitudeZeroAtHundredfold ==
  dur.step = "altitude" =>
    (AltitudeSign(dur.altitude) = 0 <=> dur.pressure = 100 * dur.seaLevel)

C25_Witness ==
  /\ dur.step = "altitude"
  /\ dur.seaLevel = 101325
  /\ dur.pressure = 10132500
  /\ AltitudeSign(dur.altitude) = 0

(* ------------------------------------------------------------------ *)
(* Construction: defaults and options                                  *)
(* ------------------------------------------------------------------ *)
\* the argument of the last option called name among those that ran, or dflt
\* when none of them ran
LastArg(name, dflt) ==
  LET ks == {k \in 1 .. Len(bus.optlog) : bus.optlog[k][1] = name}
  IN IF ks = {} THEN dflt
     ELSE bus.optlog[CHOOSE k \in ks : \A j \in ks : j <= k][2]

\* C26: construction starts from the defaults (address 0x77, mode forced,
\* temperature 8x, pressure 4x, humidity 2x, IIR coefficient 4, ODR none,
\* heater 320 C / 150 ms enabled, ambient 25, poll period 10000) and applies
\* the options in the order given: every setting holds the argument of the
\* last option that targets it, or its default when no option does
C26_DefaultsThenOptionsInOrder ==
  /\ bus.address = LastArg("WithAddress", 119)
  /\ bus.PeriodPoll = LastArg("WithPeriodPoll", 10000)
  /\ cfg.mode = LastArg("WithMode", ModeForced)
  /\ cfg.Temperature = LastArg("WithTemperatureOversampling", Sampling8X)
  /\ cfg.Pressure = LastArg("WithPressureOversampling", Sampling4X)
  /\ cfg.Humidity = LastArg("WithHumidityOversampling", Sampling2X)
  /\ cfg.IIR = LastArg("WithIIRFilter", Coeff4)
  /\ cfg.ODR = ODR_NONE
  /\ cfg.HeatrTemp = LastArg("WithHeatrTemperature", 320)
  /\ cfg.HeatrDur = LastArg("WithHeatrDuration", 150)
  /\ cfg.HeatrEnable = TRUE
  /\ cfg.AmbientTemperature = LastArg("WithAmbientTemperature", 25)

\* two options on one setting, the later one kept, the other settings default
C26_Witness ==
  /\ pc = "idle"
  /\ Len(bus.optlog) >= 2
  /\ bus.optlog[1] = <<"WithPressureOversampling", Sampling16X>>
  /\ bus.optlog[2] = <<"WithPressureOversampling", Sampling1X>>
  /\ cfg.Pressure = Sampling1X
  /\ cfg.Temperature = Sampling8X

(* ------------------------------------------------------------------ *)
(* applyConfig: the fields of the window                               *)
(* ------------------------------------------------------------------ *)
\* C27: after a successful applyConfig, whatever the registers held before,
\* register 0x75 bits 4..2 hold the IIR coefficient, register 0x74 bits 7..5
\* the temperature oversampling and bits 4..2 the pressure oversampling,
\* register 0x72 bits 2..0 the humidity oversampling, and every other bit of
\* registers 0x71..0x75, the ODR bits (0x75 bits 7..5, 0x71 bit 7) and the
\* power-mode bits (0x74 bits 1..0) aside, has the value it had before
C27_FieldsSetOtherBitsKept ==
  (pc = "idle" /\ op \in ApplyConfigOps /\ result = "ok") =>
    LET pre == hist.prev.regs
        post == dev.regs
    IN /\ (post[117] \div 4) % 8 = cfg.IIR
       /\ post[116] \div 32 = cfg.Temperature
       /\ (post[116] \div 4) % 8 = cfg.Pressure
       /\ post[114] % 8 = cfg.Humidity
       /\ post[113] % 128 = pre[113] % 128
       /\ post[114] \div 8 = pre[114] \div 8
       /\ post[115] = pre[115]
       /\ post[117] % 4 = pre[117] % 4

\* the humidity oversampling written into a register that had every bit set
C27_Witness ==
  /\ pc = "idle" /\ op = "SetHumidityOversampling" /\ result = "ok"
  /\ hist.prev.regs[114] = 255 /\ hist.prev.regs[115] = 255
  /\ cfg.Humidity = Sampling16X
  /\ dev.regs[114] = 248 + 5
  /\ dev.regs[116] \div 4 = 8 * Sampling8X + Sampling4X

\* C28: for each of the 9 output-data-rate levels applyConfig writes the
\* no-standby flag (0x71 bit 7) as 1 and the 3-bit field (0x75 bits 7..5) as
\* 0 for ODR none, and the flag as 0 and the field as the level for the 8
\* other levels; the 9 levels have 9 different (flag, field) encodings, so
\* the level can be told from the registers
C28_OdrEncoding ==
  (pc = "idle" /\ op = "SetODR" /\ result = "ok") =>
    LET flag == dev.regs[113] \div 128
        field == dev.regs[117] \div 32
    IN /\ cfg.ODR = 8 => (flag = 1 /\ field = 0)
       /\ cfg.ODR \in 0 .. 7 => (flag = 0 /\ field = cfg.ODR)
       /\ cfg.ODR = (IF flag = 1 THEN 8 ELSE field)

\* ODR none written by the second SetODR of a behaviour
C28_Witness ==
  /\ pc = "idle" /\ op = "SetODR" /\ result = "ok"
  /\ cfg.ODR = ODR_NONE
  /\ env.calls = MaxCalls - 2
  /\ dev.regs[113] \div 128 = 1
  /\ dev.regs[117] \div 32 = 0
  /\ hist.startMode = ModeSleep

(* ------------------------------------------------------------------ *)
(* readData: the order of the reads, and the gas layout                *)
(* ------------------------------------------------------------------ *)
\* the reads of readData in the call in progress or just returned, in order
RdLog ==
  SelectSeq(lastTx.log,
            LAMBDA t : t.site \in {"rd_poll", "rd_rh", "rd_idac", "rd_gw"})

\* C29: in the data-fetch step, when attempt k (0 <= k < 5) is the first
\* whose window has the new-data bit set, exactly k+1 status windows are
\* read, at 0x1D + 17*i for i = 0..k in that order, followed by exactly three
\* single-byte reads (heater resistance 0x5A, current DAC 0x50, gas wait
\* 0x64, each plus the gas index the window reported), and no status window
\* is read after that. While the fetch is in progress, or when a read has
\* failed and ended it, the reads made so far are the beginning of that
\* sequence.
C29_WindowsThenThreeReadbacks ==
  op = "Read" =>
    LET r == RdLog
        n == Len(r)
        k1 == Cardinality({j \in 1 .. n : r[j].site = "rd_poll"})
        idx == r[k1].v % 16
    IN /\ k1 <= 5
       /\ \A j \in 1 .. k1 :
            /\ r[j].site = "rd_poll"
            /\ r[j].regs = <<29 + 17 * (j - 1)>>
       /\ \A j \in 1 .. k1 - 1 : r[j].ok /\ r[j].v < 128
       /\ n > k1 =>
            /\ k1 >= 1 /\ r[k1].ok /\ r[k1].v >= 128
            /\ n <= k1 + 3
            /\ r[k1 + 1].site = "rd_rh"
            /\ r[k1 + 1].regs = <<90 + idx>>
            /\ n >= k1 + 2 =>
                 /\ r[k1 + 1].ok
                 /\ r[k1 + 2].site = "rd_idac"
                 /\ r[k1 + 2].regs = <<80 + idx>>
            /\ n >= k1 + 3 =>
                 /\ r[k1 + 2].ok
                 /\ r[k1 + 3].site = "rd_gw"
                 /\ r[k1 + 3].regs = <<100 + idx>>
       /\ (pc = "idle" /\ result = "ok" /\ k1 >= 1 /\ r[k1].v >= 128) =>
            n = k1 + 3 /\ r[n].ok

\* new data in the third window: three windows, then the three readbacks at
\* gas index 1
C29_Witness ==
  /\ pc = "idle" /\ op = "Read" /\ result = "ok"
  /\ Len(lastTx.log) >= 6
  /\ Len(RdLog) = 6
  /\ RdLog[2].v = 0
  /\ RdLog[3].site = "rd_poll" /\ RdLog[3].regs = <<63>> /\ RdLog[3].v = 129
  /\ RdLog[4].regs = <<91>> /\ RdLog[5].regs = <<81>> /\ RdLog[6].regs = <<101>>

\* C30: in a read cycle the gas-valid and heat-stable status bits, the gas
\* ADC value and the gas range used for the gas resistance all come from one
\* register layout: window bytes 15-16 with the high-range formula when the
\* variant id read before is gas-high (1), and only then; otherwise window
\* bytes 13-14 with the low-range formula
C30_GasFromOneLayoutByVariant ==
  (pc = "idle" /\ op = "Read" /\ result = "ok" /\ hist.lastWin # <<>>) =>
    LET w == hist.lastWin
        high == ident.VariantID = 1
        msb == IF high THEN w[16] ELSE w[14]
        lsb == IF high THEN w[17] ELSE w[15]
        adc == msb * 4 + lsb \div 64
        range == lsb % 16
        flags == (lsb \div 16) % 4
    IN /\ (meas.Status \div 16) % 4 = flags
       /\ hist.newData =>
            meas.GasResistance =
              IF flags = 0 THEN ZeroVal
              ELSE IF high THEN calcGasResistanceHigh(adc, range)
              ELSE calcGasResistanceLow(calib, adc, range)

\* a high-range sensor whose window has both flags set in bytes 15-16 and
\* none in bytes 13-14
C30_Witness ==
  /\ pc = "idle" /\ op = "Read" /\ result = "ok"
  /\ hist.newData
  /\ ident.VariantID = VARIANT_GAS_HIGH
  /\ hist.lastWin[15] = 3 /\ hist.lastWin[17] = 57
  /\ meas.GasResistance = calcGasResistanceHigh(60 * 4, 9)
  /\ meas.GasResistance # ZeroVal

\* the call in progress has read the calibration window at reg with success
CalWindowRead(log, site, reg) ==
  \E i \in 1 .. Len(log) :
    log[i].site = site /\ log[i].kind = "read" /\ log[i].regs = <<reg>> /\ log[i].ok

\* C31: the calibration coefficients change only in Configure's calibration
\* step, after the reads of 23 bytes at 0x8A, 14 bytes at 0xE1 and 5 bytes at
\* 0x00 have all succeeded, and become the decode of these 42 bytes; a step
\* whose calibration read fails, and every step of any other operation,
\* leaves them as they were
C31_CalibOnlyAfterThreeReads ==
  [][/\ calib' # calib =>
          /\ op = "Configure" /\ pc = "cf_cal3"
          /\ lastTx'.site = "cf_cal3" /\ lastTx'.rlen = 5
          /\ CalWindowRead(lastTx'.log, "cf_cal1", 138)
          /\ CalWindowRead(lastTx'.log, "cf_cal2", 225)
          /\ CalWindowRead(lastTx'.log, "cf_cal3", 0)
          /\ calib' = DecodeCalib(DevCalRom)
     /\ (pc \in {"cf_cal1", "cf_cal2", "cf_cal3"} /\ ~lastTx'.ok) =>
          calib' = calib /\ result' = "err"
     /\ (pc = "cf_cal1" /\ lastTx'.ok) => lastTx'.rlen = 23
     /\ (pc = "cf_cal2" /\ lastTx'.ok) => lastTx'.rlen = 14]_vars

\* a Configure whose second calibration read failed, on a Device whose
\* coefficients an earlier Configure decoded
C31_Witness ==
  /\ pc = "idle" /\ op = "Configure" /\ result = "err"
  /\ lastTx.site = "cf_cal2" /\ ~lastTx.ok
  /\ calib.decoded /\ calib = DecodeCalib(DevCalRom)

\* C32: for all bytes b23, b24, b25 of the calibration buffer the decode
\* gives h1 = b25*16 + (b24 mod 16) and h2 = b23*16 + (b24 div 16), both in
\* 0..4095; the two take disjoint nibbles of b24, which is recovered from
\* their low nibbles
C32_SharedByteNibbles ==
  dur.step = "decoded" =>
    LET b23 == dur.b[1]
        b24 == dur.b[2]
        b25 == dur.b[3]
    IN /\ calib.h1 = b25 * 16 + (b24 % 16)
       /\ calib.h2 = b23 * 16 + (b24 \div 16)
       /\ calib.h1 \in 0 .. 4095
       /\ calib.h2 \in 0 .. 4095
       /\ (calib.h2 % 16) * 16 + (calib.h1 % 16) = b24

\* a buffer whose shared byte has two different nibbles and whose outer
\* bytes differ: h1 = 0xFF*16 + 0xB, h2 = 0x00*16 + 0xA
C32_Witness ==
  /\ dur.step = "decoded"
  /\ dur.b = <<0, 171, 255>>
  /\ calib.h1 = 4091 /\ calib.h2 = 10

\* the reads of the gas wait register in the call in progress that succeeded
GasWaitReads ==
  SelectSeq(lastTx.log, LAMBDA t : t.site = "rd_gw" /\ t.ok)

\* C33: after a Read that found new data, the temperature compensation has
\* run once (with the one successful gas wait readback that precedes it), and
\* the temperature-fine value the pressure and the humidity were compensated
\* with is the one derived from the temperature ADC of the same window, not
\* the one a previous cycle left
C33_FineFromSameCycle ==
  (pc = "idle" /\ op = "Read" /\ result = "ok" /\ hist.newData) =>
    LET w == hist.lastWin
        adcTemp == w[6] * 4096 + w[7] * 16 + w[8] \div 16
        tfine == TemperatureFineOf(calib, adcTemp)
    IN /\ Len(GasWaitReads) = 1
       /\ meas.TemperatureFine = tfine
       /\ meas.Temperature = calcTemperature(calib, adcTemp)
       /\ meas.Pressure.fn = "calcPressure" /\ meas.Pressure.args[2] = tfine
       /\ meas.Humidity.fn = "calcHumidity" /\ meas.Humidity.args[2] = tfine

\* a second cycle whose temperature ADC differs from that of the cycle
\* before it
C33_Witness ==
  /\ pc = "idle" /\ op = "Read" /\ result = "ok" /\ hist.newData
  /\ hist.measBefore.TemperatureFine # ZeroVal
  /\ hist.measBefore.TemperatureFine # meas.TemperatureFine
  /\ hist.measBefore.Pressure.args[2] = hist.measBefore.TemperatureFine
  /\ meas.Pressure.args[2] = meas.TemperatureFine

\* the new-data bit of d.Status
StatusNewData == And(meas.Status, NEW_DATA_MSK) # 0

\* the call in progress has compensated temperature, pressure, humidity and
\* gas resistance (the step that follows the gas wait readback)
Recomputed == Len(GasWaitReads) = 1

\* C34 as stated: after any Read that returns success (a Read that returns
\* at the in-flight guard included) the new-data bit of Status is set if and
\* only if the call recomputed the four derived values
C34_StatusTellsFreshOfAnyRead ==
  /\ (pc = "idle" /\ op = "Read" /\ result = "ok") =>
       (StatusNewData <=> Recomputed)
  /\ (pc = "rd_sleep" /\ hist.guarded = "ok") => ~StatusNewData

\* C34 amended: after any Read that returns success after running the data
\* fetch, the new-data bit of Status is set if and only if the call
\* recomputed the four derived values (which then are those of the last
\* window read, and otherwise those from before the call); a Read that
\* returns success without the data fetch leaves Status and the derived
\* values as they were
C34_StatusTellsFreshOfFetch ==
  /\ (pc = "idle" /\ op = "Read" /\ result = "ok" /\ hist.windowReads > 0) =>
       LET f == DecodeWindow(hist.lastWin, ident.VariantID)
           m == Compensate(meas, calib, f)
       IN /\ StatusNewData <=> Recomputed
          /\ StatusNewData =>
               /\ meas.Temperature = m.Temperature
               /\ meas.Pressure = m.Pressure
               /\ meas.Humidity = m.Humidity
               /\ meas.GasResistance =
                    GasResistanceOf(calib, ident.VariantID, meas.Status, f)
          /\ ~StatusNewData =>
               \A n \in DerivedFields : meas[n] = hist.measBefore[n]
  /\ (pc = "idle" /\ op = "Read" /\ result = "ok" /\ hist.windowReads = 0) =>
       ~Recomputed /\ meas = hist.measBefore
  /\ (pc = "rd_sleep" /\ hist.guarded = "ok") => meas = hist.measBefore

\* a Read that returned success without the data fetch (the clock at 0 and
\* a period of 0 ms) on a Device whose Status an earlier Read left with the
\* new-data bit set
C34_Witness ==
  /\ pc = "idle" /\ op = "Read" /\ result = "ok" /\ hist.windowReads = 0
  /\ StatusNewData /\ ~Recomputed
  /\ meas.Temperature # ZeroVal

\* C35: when a transaction of setMemoryPage's page-switch sequence (the read
\* of the page register, or the write-back) fails, the cached page is the one
\* cached when the call began, and equals the sensor's page bit if it did so
\* then; stated for calls whose only transactions are those of the sequence
C35_FailedSwitchKeepsCache ==
  (/\ spi.pc = "idle" /\ spi.result = "err" /\ spi.op \in {"Read", "Write"}
   /\ ~spiTx.ok
   /\ \/ spiTx.site = "sp_pgread" /\ spi.io.txs = 1
      \/ spiTx.site = "sp_pgwrite" /\ spi.io.txs = 2) =>
    /\ spi.memoryPage = spi.io.cache0
    /\ spi.io.cache0 = spiTx.devPage => spi.memoryPage = spiDev.page

\* the registers the pairs of the outgoing bytes w name
WrittenRegs(w) == {w[2 * k - 1] : k \in 1 .. Len(w) \div 2}

\* C36: on either transport the data transaction of a Write of n pairs
\* (1 <= n <= 10) carries exactly 2n bytes, and every register its pairs name
\* is one the caller named (on the paged transport with bit 7 cleared)
C36_WriteSendsTwoNBytes ==
  /\ (bus.op = "Write" /\ bus.txs = 1) =>
       /\ Len(lastTx.w) = 2 * Len(bus.data)
       /\ WrittenRegs(lastTx.w) \subseteq {bus.regs[i] : i \in 1 .. Len(bus.data)}
  /\ (spi.op = "Write" /\ spiTx.site = "sp_wtx") =>
       /\ Len(spiTx.w) = 2 * Len(spi.data)
       /\ WrittenRegs(spiTx.w) \subseteq
            {And(spi.regs[i], SPI_WR_MSK) : i \in 1 .. Len(spi.data)}

\* C37: every value SetMode writes goes to the mode register and has in
\* bits 7..2 the bits 7..2 of the value SetMode last read, whatever the
\* target mode and the register held before; no step of SetMode changes
\* bits 7..2 of the sensor's mode register
C37_SetModeKeepsOversamplingBits ==
  [][/\ (pc \in {"sm_clear", "sm_target"} /\ lastTx' # lastTx) =>
          /\ lastTx'.kind = "write"
          /\ lastTx'.regs = <<REG_CTRL_MEAS>>
          /\ lastTx'.w[1] = REG_CTRL_MEAS
          /\ lastTx'.w[2] \div 4 = hist.lastRaw \div 4
          /\ lastTx'.w[2] % 4 = IF pc = "sm_clear" THEN ModeSleep
                                ELSE loc.mode % 4
     /\ dev'.regs[REG_CTRL_MEAS] \div 4 = dev.regs[REG_CTRL_MEAS] \div 4]_vars

\* SetMode with a target byte above the mode field has returned success on a
\* sensor found awake with alternating oversampling bits
C37_Witness ==
  /\ pc = "idle" /\ op = "SetMode" /\ result = "ok"
  /\ cfg.mode = 253
  /\ hist.startMode # ModeSleep
  /\ lastTx.site = "sm_target" /\ lastTx.ok
  /\ lastTx.w[2] = 84 + 1
  /\ dev.regs[REG_CTRL_MEAS] = 84 + 1

\* C38: after a successful Configure on a Device constructed with the
\* defaults, Config still records the mode chosen at construction (forced)
C38_ConfigureKeepsIntendedMode ==
  (pc = "idle" /\ op = "Configure" /\ result = "ok"
     /\ env.calls = MaxCalls - 1) =>
    cfg.mode = DefaultConfig.mode

\* C39: whenever a heater-resistance byte has been written (applyHeatrConfig,
\* under applyGasConfig) or Read has run its compensations, the calibration
\* coefficients have been decoded
C39_CalibDecodedBeforeUse ==
  /\ lastTx.site = "ag_rh" => calib.decoded
  /\ (lastTx.site = "rd_gw" /\ lastTx.ok) => calib.decoded

====
